---------------------------- MODULE Spec2Model ----------------------------
(***************************************************************************)
(* A model of the lead-generation tools of the Restro repository:          *)
(*   tools/build_leads_csv.py          (deduplicate, pick_category)        *)
(*   tools/build_outreach_xlsx.py      (load_leads, cross-category         *)
(*                                      tie-break)                         *)
(*   tools/scrape_website_emails.py    (extract_emails, extract_owner,     *)
(*                                      enrich_record)                     *)
(*   tools/build_qualified_cafes_500.py (ranking and truncation)           *)
(*   tools/google_maps_search.py       (search_places, main)               *)
(*   tools/run_targeted_cities.py, tools/run_niche_batch.py (the loop over *)
(*                                      the pairs, run twice)              *)
(*   app.py                            (run, run_pipeline, stream,         *)
(*                                      cleanup_intermediates)             *)
(*                                                                         *)
(* Text is modelled as a sequence of fragments (short strings): the string *)
(* " Ann@biz.com" is <<" ", "Ann", "@", "biz.com">>.  Two texts are equal  *)
(* exactly when their fragment sequences are equal; lower-casing maps each *)
(* fragment, stripping removes leading and trailing blank fragments, and   *)
(* suffix tests are made on the fragment sequence.                         *)
(*                                                                         *)
(* Each tool is a separate program, so each has its own specification      *)
(* (SpecDedup, SpecOutreach, SpecExtract, SpecOwner, SpecEnrich,           *)
(* SpecSelect) over the one variable tuple; the variables of the other     *)
(* tools stay idle.  SpecBatch is a batch driver together with the search  *)
(* tool and the scraper it runs for each (niche, city) pair.               *)
(* SpecCategory applies pick_category to a place's tags.  SpecApp is the   *)
(* web application: each job's pipeline thread, the tools it starts and    *)
(* the reader of the job's event stream, interleaved over the shared .tmp  *)
(* folder; SpecAppFair adds fair scheduling of the threads and the reader. *)
(***************************************************************************)
EXTENDS Integers, Sequences, FiniteSets, TLC

\* ------------------------------------------------------------------------
\* Bounds of the model
\* ------------------------------------------------------------------------

\* Longest list of enriched records handed to deduplicate.
MaxRecords == 3

\* Most rows (over all files together) in the Leads folder of the outreach builder.
MaxRows == 3

\* Most email-shaped matches in the text of the document given to extract_emails.
MaxDocEmails == 3

\* Most records in the merged pool of the qualified-cafes builder.
MaxPool == 3

\* TARGET_COUNT of build_qualified_cafes_500.py, which is 500 there: scaled
\* down so that pools below, at and above the target are all within MaxPool.
TARGET_COUNT == 2

VARIABLES
    \* build_leads_csv.py
    leads_cells,    \* raw "email" cells of the CSV rows in the Leads/ folder
    records,        \* the merged enriched records, in load order
    unique,         \* the list deduplicate returned
    unique_again,   \* what deduplicate returns for that list
    enriched_found, \* glob finds at least one .tmp/enriched_<niche>_*.json
    csv_written,    \* the output CSV .tmp/leads_<niche>_<timestamp>.csv exists
    pc_d,           \* "start" | "done" | "aborted" | "again"
    \* build_outreach_xlsx.py
    leads_dir,      \* LEADS_DIR: file name -> the rows of the file
    cafe_leads,     \* dict email -> lead, as its entries in insertion order
    resto_leads,
    pc_o,           \* "start" | "loaded" | "resolved"
    \* scrape_website_emails.py, extract_emails on one document
    doc_raw,        \* EMAIL_REGEX.findall(text): the matches, in text order
    ext_site,       \* the site_domain argument
    extracted,      \* the list extract_emails returned
    pc_x,           \* "start" | "done"
    \* scrape_website_emails.py, enrich_record on one record
    record,         \* the listing (website, email, owner_name)
    web,            \* URL -> what a GET of it answers, for the URLs fetched
    site_domain,
    pages,
    page_i,         \* index into pages of the next page to visit
    all_emails,
    owner_name,
    fetch_log,      \* the URLs this call of enrich_record handed to fetch_page
    timeline,       \* the calls of time.sleep and fetch_page the process made, in order
    call_no,        \* 1: first call of enrich_record, 2: the call made again
    first_result,   \* the record as the first call returned it
    pc_e,           \* "start" | "loop" | "write" | "done"
    \* build_qualified_cafes_500.py
    existing,       \* the leads loaded from the Leads folder, in dict order
    new_leads,      \* what scrape_more_cafes returned
    final,          \* all_records[:TARGET_COUNT]
    needed,         \* the number main prints in step 2 (-1: nothing printed yet)
    output_written, \* the output CSV was written and announced under OUTPUT:
    pc_s,           \* "start" | "merged" | "done"
    \* scrape_website_emails.py, validate_name and extract_owner
    own_doc,        \* the document given to extract_owner
    own_owner,      \* what extract_owner returned
    own_name,       \* the candidate given to validate_name
    own_valid,      \* what validate_name returned
    pc_w,           \* "start" | "extracted" | "validated"
    \* run_targeted_cities.py / run_niche_batch.py with the two tools they
    \* run, google_maps_search.py and scrape_website_emails.py
    run,            \* "earlier" | "later": the batch driver is run twice
    job,            \* the (niche, city) pair the driver is at
    tmp,            \* the .tmp folder: the raw and the enriched file of each pair
    earlier_tmp,    \* the .tmp folder as the earlier run left it
    page_num,       \* search_places
    page_token,
    all_places,
    search_log,     \* the requests of this call of search_places and their answers
    raw_records,    \* scrape_website_emails.py main: records
    rec_i,          \* index into raw_records of the record being enriched
    enriched,
    pc_b,           \* where the driver and the tool it runs are
    \* build_leads_csv.py, pick_category on one record
    cat_types,      \* the "types" of the record: its tags
    cat_niche,      \* the --niche argument
    category,       \* what pick_category returned
    pc_c,           \* "start" | "done"
    \* app.py
    api_key,        \* GOOGLE_MAPS_API_KEY is set
    jobs,           \* the jobs dict: queue, status and csv of each job
    thread,         \* the run_pipeline thread of each job: where it is, its locals
    disk,           \* .tmp: the raw file, the enriched file, the leads CSVs
    streamed,       \* the events /stream/<job_id> yielded to its client
    reader,         \* "none" | "reading" | "closed": the client of each stream
    response        \* what the last /run request was answered

dedupVars == <<leads_cells, records, unique, unique_again, enriched_found,
               csv_written, pc_d>>
outVars == <<leads_dir, cafe_leads, resto_leads, pc_o>>

extVars == <<doc_raw, ext_site, extracted, pc_x>>
enrVars == <<record, web, site_domain, pages, page_i, all_emails, owner_name,
             fetch_log, timeline, call_no, first_result, pc_e>>

selVars == <<existing, new_leads, final, needed, output_written, pc_s>>

ownVars == <<own_doc, own_owner, own_name, own_valid, pc_w>>

batchVars == <<run, job, tmp, earlier_tmp, page_num, page_token, all_places,
               search_log, raw_records, rec_i, enriched, pc_b>>

catVars == <<cat_types, cat_niche, category, pc_c>>

appVars == <<api_key, jobs, thread, disk, streamed, reader, response>>

vars == <<dedupVars, outVars, extVars, enrVars, selVars, ownVars, batchVars, catVars, appVars>>

\* What an action of one tool leaves alone: the variables of the others.
notDedup    == <<outVars, extVars, enrVars, selVars, ownVars, batchVars, catVars, appVars>>
notOutreach == <<dedupVars, extVars, enrVars, selVars, ownVars, batchVars, catVars, appVars>>
notExtract  == <<dedupVars, outVars, enrVars, selVars, ownVars, batchVars, catVars, appVars>>
notEnrich   == <<dedupVars, outVars, extVars, selVars, ownVars, batchVars, catVars, appVars>>
notSelect   == <<dedupVars, outVars, extVars, enrVars, ownVars, batchVars, catVars, appVars>>
notOwner    == <<dedupVars, outVars, extVars, enrVars, selVars, batchVars, catVars, appVars>>
notBatch    == <<dedupVars, outVars, extVars, selVars, ownVars, catVars, appVars>>
notApp == <<dedupVars, outVars, extVars, enrVars, selVars, ownVars, batchVars, catVars>>
notCategory == <<dedupVars, outVars, extVars, enrVars, selVars, ownVars, batchVars, appVars>>

\* A tool that is not running: its variables hold nothing.
IdleDedup ==
    /\ leads_cells = {}
    /\ records = <<>>
    /\ unique = <<>>
    /\ unique_again = <<>>
    /\ enriched_found = FALSE
    /\ csv_written = FALSE
    /\ pc_d = "idle"

IdleOutreach ==
    /\ leads_dir = <<>>
    /\ cafe_leads = <<>>
    /\ resto_leads = <<>>
    /\ pc_o = "idle"

IdleExtract ==
    /\ doc_raw = <<>>
    /\ ext_site = <<>>
    /\ extracted = <<>>
    /\ pc_x = "idle"

IdleSelect ==
    /\ existing = <<>>
    /\ new_leads = <<>>
    /\ final = <<>>
    /\ needed = -1
    /\ output_written = FALSE
    /\ pc_s = "idle"

IdleOwner ==
    /\ own_doc = <<>>
    /\ own_owner = <<>>
    /\ own_name = <<>>
    /\ own_valid = FALSE
    /\ pc_w = "idle"

IdleBatch ==
    /\ run = "idle"
    /\ job = 0
    /\ tmp = <<>>
    /\ earlier_tmp = <<>>
    /\ page_num = 0
    /\ page_token = ""
    /\ all_places = <<>>
    /\ search_log = <<>>
    /\ raw_records = <<>>
    /\ rec_i = 0
    /\ enriched = <<>>
    /\ pc_b = "idle"

IdleCategory ==
    /\ cat_types = <<>>
    /\ cat_niche = <<>>
    /\ category = <<>>
    /\ pc_c = "idle"

IdleApp ==
    /\ api_key = FALSE
    /\ jobs = <<>>
    /\ thread = <<>>
    /\ disk = <<>>
    /\ streamed = <<>>
    /\ reader = <<>>
    /\ response = <<>>

IdleEnrich ==
    /\ record = <<>>
    /\ web = <<>>
    /\ site_domain = <<>>
    /\ pages = <<>>
    /\ page_i = 0
    /\ all_emails = <<>>
    /\ owner_name = <<>>
    /\ fetch_log = <<>>
    /\ timeline = <<>>
    /\ call_no = 0
    /\ first_result = <<>>
    /\ pc_e = "idle"

\* ------------------------------------------------------------------------
\* Text helpers (str.lower, str.strip, str.endswith)
\* ------------------------------------------------------------------------

\* str.lower on one fragment.
LowerFrag(f) ==
    CASE f = "Ann"     -> "ann"
      [] f = "Info"    -> "info"
      [] f = "Biz.com" -> "biz.com"
      [] f = "WWW."    -> "www."
      [] f = "Cafe"    -> "cafe"
      [] f = "Coffee"  -> "coffee"
      [] f = "John"    -> "john"
      [] f = "Smith"   -> "smith"
      [] f = "About"   -> "about"
      [] f = "Us"      -> "us"
      [] f = "Michael" -> "michael"
      [] f = "Roberts" -> "roberts"
      [] f = "Extra"   -> "extra"
      [] f = "John123" -> "john123"
      [] f = "The"     -> "the"
      [] f = "Owner"   -> "owner"
      [] OTHER         -> f

lower(s) == [i \in DOMAIN s |-> LowerFrag(s[i])]

IsBlank(f) == f = " "

MinOf(S) == CHOOSE x \in S : \A y \in S : x <= y
MaxOf(S) == CHOOSE x \in S : \A y \in S : x >= y

strip(s) ==
    LET solid == {i \in DOMAIN s : ~IsBlank(s[i])}
    IN  IF solid = {} THEN <<>> ELSE SubSeq(s, MinOf(solid), MaxOf(solid))

endswith(s, suffix) ==
    /\ Len(suffix) <= Len(s)
    /\ SubSeq(s, Len(s) - Len(suffix) + 1, Len(s)) = suffix

startswith(s, prefix) ==
    /\ Len(prefix) <= Len(s)
    /\ SubSeq(s, 1, Len(prefix)) = prefix

Range(s) == {s[i] : i \in DOMAIN s}

\* All sequences over S of length at most n.
SeqsUpTo(S, n) == UNION {[1..k -> S] : k \in 0..n}

\* ------------------------------------------------------------------------
\* build_outreach_xlsx.py
\* ------------------------------------------------------------------------

CAFE_KEYWORDS  == <<"cafe", "coffee", "espresso">>
RESTO_KEYWORDS == <<"restaurant", "bistro", "diner">>

\* The file names LEADS_DIR may hold, in the order sorted(os.listdir(..))
\* gives them (upper case sorts before lower case):
\*   Cafe_bistro.csv  coffee.csv  diner.csv  espresso.txt  leads.csv
LeadFileNames ==
    << <<"Cafe", "_", "bistro", ".csv">>,
       <<"coffee", ".csv">>,
       <<"diner", ".csv">>,
       <<"espresso", ".txt">>,
       <<"leads", ".csv">> >>

\* The "email" cells of a row of a leads file.
RowEmails ==
    {<<" ">>, <<"ann", "@", "biz.com">>, <<" ", "Ann", "@", "biz.com">>,
     <<"bob", "@", "other.com">>}

\* any(kw in f.lower() for kw in keyword_tuple)
MatchesKeywords(f, keyword_tuple) ==
    \E k \in DOMAIN keyword_tuple : keyword_tuple[k] \in Range(lower(f))

Keys(leads) == {leads[k].email : k \in DOMAIN leads}

\* Lines 44-57: the rows of one file, from row i on.
RECURSIVE LoadRows(_, _, _)
LoadRows(rows, i, leads) ==
    IF i > Len(rows) THEN leads
    ELSE
        LET email == lower(strip(rows[i].email))
        IN  IF email # <<>> /\ email \notin Keys(leads)
                THEN LoadRows(rows, i + 1,
                              Append(leads, [email |-> email,
                                             business_name |-> rows[i].business_name]))
                ELSE LoadRows(rows, i + 1, leads)

\* Lines 36-59: the files of LEADS_DIR in sorted order, from file n on.
RECURSIVE LoadFiles(_, _, _, _)
LoadFiles(dir, keyword_tuple, n, leads) ==
    IF n > Len(LeadFileNames) THEN leads
    ELSE
        LET f == LeadFileNames[n]
        IN  IF ~endswith(f, <<".csv">>)
                THEN LoadFiles(dir, keyword_tuple, n + 1, leads)
            ELSE IF ~MatchesKeywords(f, keyword_tuple)
                THEN LoadFiles(dir, keyword_tuple, n + 1, leads)
            ELSE LoadFiles(dir, keyword_tuple, n + 1, LoadRows(dir[f], 1, leads))

load_leads(dir, keyword_tuple) == LoadFiles(dir, keyword_tuple, 1, <<>>)

\* Line 145 written with set difference instead of intersection.
Overlap_difference(cafe, resto) == Keys(cafe) \ Keys(resto)

\* Line 145: overlap = set(cafe_leads.keys()) & set(resto_leads.keys())
Overlap(cafe, resto) == Keys(cafe) \cap Keys(resto)

\* del d[email] for every email of the set.
DeleteKeys(leads, emails) ==
    LET Stays(lead) == lead.email \notin emails
    IN  SelectSeq(leads, Stays)

\* The tie-break turned round: the shared emails are deleted from the
\* restaurant dict.
TieBreak_cafeKeeps(cafe, resto) ==
    [cafe |-> cafe, resto |-> DeleteKeys(resto, Overlap(cafe, resto))]

\* Lines 145-148: the shared emails are deleted from the cafe dict.
TieBreak(cafe, resto) ==
    [cafe |-> DeleteKeys(cafe, Overlap(cafe, resto)), resto |-> resto]

\* A Leads folder: rows placed one after the other into the files; the
\* k-th placed row carries business_name k.
RowPlacements ==
    SeqsUpTo(Range(LeadFileNames) \X RowEmails, MaxRows)

DirOf(placement) ==
    [f \in Range(LeadFileNames) |->
        LET idx == [k \in DOMAIN placement |->
                        [email |-> placement[k][2], business_name |-> k,
                         file |-> placement[k][1]]]
            InF(row) == row.file = f
        IN  SelectSeq(idx, InF)]

InitOutreach ==
    /\ IdleDedup /\ IdleExtract /\ IdleEnrich /\ IdleSelect /\ IdleOwner /\ IdleBatch /\ IdleCategory /\ IdleApp
    /\ \E placement \in RowPlacements : leads_dir = DirOf(placement)
    /\ cafe_leads = <<>>
    /\ resto_leads = <<>>
    /\ pc_o = "start"

\* main, lines 134-141: load both categories.
OutreachLoad ==
    /\ pc_o = "start"
    /\ cafe_leads' = load_leads(leads_dir, CAFE_KEYWORDS)
    /\ resto_leads' = load_leads(leads_dir, RESTO_KEYWORDS)
    /\ pc_o' = "loaded"
    /\ UNCHANGED leads_dir
    /\ UNCHANGED notOutreach

\* main, lines 143-152: remove the cross-category overlap.
OutreachResolve ==
    /\ pc_o = "loaded"
    /\ cafe_leads' = TieBreak(cafe_leads, resto_leads).cafe
    /\ resto_leads' = TieBreak(cafe_leads, resto_leads).resto
    /\ pc_o' = "resolved"
    /\ UNCHANGED leads_dir
    /\ UNCHANGED notOutreach

NextOutreach == OutreachLoad \/ OutreachResolve

SpecOutreach == InitOutreach /\ [][NextOutreach]_vars

\* ------------------------------------------------------------------------
\* build_leads_csv.py
\* ------------------------------------------------------------------------

\* The "email" cells a Leads/ CSV row may hold.
LeadCells == {<<" ", "Ann", "@", "biz.com">>, <<"bob", "@", "other.com">>, <<" ">>}

\* The place_id and email values of an enriched record.
PlaceIds == {"", "p1", "p2"}
RecordEmails ==
    {<<>>, <<" ">>, <<"ann", "@", "biz.com">>, <<"Ann", "@", "biz.com", " ">>,
     <<"bob", "@", "other.com">>}

\* record.get("email", "").strip().lower()
NormEmail(cell) == lower(strip(cell))

\* load_existing_emails: the non-empty normalized emails of the Leads/ rows.
load_existing_emails(cells) == {NormEmail(c) : c \in cells} \ {<<>>}

\* Lines 103-106: the record collides with one already kept (or excluded).
IsDuplicate_placeOnly(place_id, email, seen_place_ids, seen_emails) ==
    place_id # "" /\ place_id \in seen_place_ids

IsDuplicate(place_id, email, seen_place_ids, seen_emails) ==
    \/ place_id # "" /\ place_id \in seen_place_ids
    \/ email # <<>> /\ email \in seen_emails

\* The loop of deduplicate over recs[i..], carrying the two seen sets and
\* the list built so far.
RECURSIVE DedupFrom(_, _, _, _, _)
DedupFrom(recs, i, seen_place_ids, seen_emails, acc) ==
    IF i > Len(recs) THEN acc
    ELSE
        LET rec      == recs[i]
            place_id == rec.place_id
            email    == NormEmail(rec.email)
        IN  IF IsDuplicate(place_id, email, seen_place_ids, seen_emails)
                THEN DedupFrom(recs, i + 1, seen_place_ids, seen_emails, acc)
            ELSE DedupFrom(recs, i + 1,
                           IF place_id # "" THEN seen_place_ids \cup {place_id}
                                            ELSE seen_place_ids,
                           IF email # <<>> THEN seen_emails \cup {email}
                                           ELSE seen_emails,
                           Append(acc, rec))

\* A deduplicate that forgets to seed seen_emails with the exclusion set.
deduplicate_unseeded(recs, existing_emails) ==
    DedupFrom(recs, 1, {}, {}, <<>>)

\* A deduplicate that keeps each record with its email normalized.
deduplicate_normalizing(recs, existing_emails) ==
    LET kept == DedupFrom(recs, 1, {}, existing_emails, <<>>)
    IN  [k \in DOMAIN kept |-> [kept[k] EXCEPT !.email = NormEmail(@)]]

deduplicate(recs, existing_emails) ==
    DedupFrom(recs, 1, {}, existing_emails, <<>>)

\* A load_enriched_files that returns an empty list when glob finds nothing.
load_enriched_files_silent(found, recs) ==
    [raised |-> FALSE, records |-> IF found THEN recs ELSE <<>>]

\* Lines 59-75: SystemExit when glob finds no file, else the records of
\* the files, one file after the other.
load_enriched_files(found, recs) ==
    IF ~found THEN [raised |-> TRUE, records |-> <<>>]
    ELSE [raised |-> FALSE, records |-> recs]

\* The enriched records as loaded: the n-th loaded record is the object n
\* (field idx stands for the identity of the Python dict).
RecordLists ==
    UNION {[1..n -> [place_id : PlaceIds, email : RecordEmails]] : n \in 0..MaxRecords}

WithIdx(list) ==
    [i \in DOMAIN list |->
        [idx |-> i, place_id |-> list[i].place_id, email |-> list[i].email]]

InitDedup ==
    /\ IdleOutreach /\ IdleExtract /\ IdleEnrich /\ IdleSelect /\ IdleOwner /\ IdleBatch /\ IdleCategory /\ IdleApp
    /\ leads_cells \in SUBSET LeadCells
    /\ enriched_found \in BOOLEAN
    /\ \E list \in RecordLists :
        /\ records = WithIdx(list)
        /\ ~enriched_found => list = <<>>
    /\ unique = <<>>
    /\ unique_again = <<>>
    /\ csv_written = FALSE
    /\ pc_d = "start"

\* main, lines 142-163: load the exclusion set and the enriched files,
\* deduplicate and write the CSV; SystemExit of load_enriched_files ends the
\* run before the CSV is opened.
DedupMain ==
    /\ pc_d = "start"
    /\ LET loaded == load_enriched_files(enriched_found, records)
       IN  IF loaded.raised
               THEN /\ pc_d' = "aborted"
                    /\ UNCHANGED <<unique, csv_written>>
               ELSE /\ unique' = deduplicate(loaded.records,
                                             load_existing_emails(leads_cells))
                    /\ csv_written' = TRUE
                    /\ pc_d' = "done"
    /\ UNCHANGED <<leads_cells, records, unique_again, enriched_found>>
    /\ UNCHANGED notDedup

\* deduplicate is applied, with the same exclusion set, to the list it
\* returned.
DedupAgain ==
    /\ pc_d = "done"
    /\ unique_again' = deduplicate(unique, load_existing_emails(leads_cells))
    /\ pc_d' = "again"
    /\ UNCHANGED <<leads_cells, records, unique, enriched_found, csv_written>>
    /\ UNCHANGED notDedup

NextDedup == DedupMain \/ DedupAgain

SpecDedup == InitDedup /\ [][NextDedup]_vars

\* ------------------------------------------------------------------------
\* scrape_website_emails.py: extract_emails
\* ------------------------------------------------------------------------

GENERIC_EMAIL_DOMAINS ==
    {<<"gmail.com">>, <<"yahoo.com">>, <<"hotmail.com">>, <<"outlook.com">>,
     <<"icloud.com">>, <<"mail.com">>, <<"aol.com">>}

\* DISCARD_EMAIL_PATTERN.search(email): one of the words anywhere, one of
\* the platform names right after the "@", or "test"/"user" right before it.
MatchesDiscardPattern(e) ==
    \E i \in DOMAIN e :
        \/ e[i] \in {"example", "domain", "youremail", "noreply", "no-reply",
                     "donotreply"}
        \/ /\ e[i] = "@"
           /\ i < Len(e)
           /\ e[i + 1] \in {"wixpress", "squarespace", "wordpress", "cloudflare"}
        \/ /\ e[i] \in {"test", "user"}
           /\ i < Len(e)
           /\ e[i + 1] = "@"

\* DISCARD_EXTENSION_PATTERN.search(email): an image extension at the end.
MatchesDiscardExtension(e) ==
    /\ e # <<>>
    /\ e[Len(e)] \in {".png", ".jpg", ".jpeg", ".gif", ".svg", ".webp", ".ico",
                      ".bmp", ".tiff"}

\* Lines 93-100: the lower-cased matches that no discard pattern matches.
ValidEmails(raw) ==
    LET lowered == [i \in DOMAIN raw |-> strip(lower(raw[i]))]
        Valid(e) == ~MatchesDiscardPattern(e) /\ ~MatchesDiscardExtension(e)
    IN  SelectSeq(lowered, Valid)

\* Lines 102-108: first occurrences only, in order.
RECURSIVE Dedupe(_, _)
Dedupe(s, acc) ==
    IF s = <<>> THEN acc
    ELSE IF Head(s) \in Range(acc) THEN Dedupe(Tail(s), acc)
    ELSE Dedupe(Tail(s), Append(acc, Head(s)))

\* e.split("@")[-1]
DomainOf(e) ==
    LET ats == {i \in DOMAIN e : e[i] = "@"}
    IN  IF ats = {} THEN e ELSE SubSeq(e, MaxOf(ats) + 1, Len(e))

\* A priority that takes every domain ending with the site domain for the
\* site's own.
priority_suffix(e, domain_of_site) ==
    IF endswith(DomainOf(e), domain_of_site) THEN 0
    ELSE IF DomainOf(e) \notin GENERIC_EMAIL_DOMAINS THEN 1
    ELSE 2

\* Lines 111-117.
priority(e, domain_of_site) ==
    IF DomainOf(e) = domain_of_site THEN 0
    ELSE IF DomainOf(e) \notin GENERIC_EMAIL_DOMAINS THEN 1
    ELSE 2

\* list.sort(key=...): a stable sort of s, ascending in the keys, where
\* keys[i] is the key of s[i].
SortedBy(s, keys) ==
    LET n == Len(s)
        Before(j, i) == \/ keys[j] < keys[i]
                        \/ keys[j] = keys[i] /\ j < i
        Place(i) == Cardinality({j \in 1..n : Before(j, i)}) + 1
    IN  [p \in 1..n |-> s[CHOOSE i \in 1..n : Place(i) = p]]

\* extract_emails, on the matches EMAIL_REGEX finds in the document's text.
extract_emails(raw, domain_of_site) ==
    LET deduped == Dedupe(ValidEmails(raw), <<>>)
    IN  SortedBy(deduped,
                 [i \in DOMAIN deduped |-> priority(deduped[i], domain_of_site)])

\* The email-shaped matches a document's text may hold.
EmailA    == <<"a", "@", "biz.com">>
EmailAUp  == <<"A", "@", "Biz.com">>
EmailInfo == <<"info", "@", "biz.com">>
EmailB    == <<"b", "@", "other.com">>
EmailC    == <<"c", "@", "gmail.com">>
EmailN    == <<"n", "@", "not", "biz.com">>
EmailTest == <<"test", "@", "biz.com">>
EmailPng  == <<"logo", "@", "2x", ".png">>

DocEmails ==
    {EmailA, EmailAUp, EmailInfo, EmailB, EmailC, EmailN, EmailTest, EmailPng}

InitExtract ==
    /\ IdleDedup /\ IdleOutreach /\ IdleEnrich /\ IdleSelect /\ IdleOwner /\ IdleBatch /\ IdleCategory /\ IdleApp
    /\ doc_raw \in SeqsUpTo(DocEmails, MaxDocEmails)
    /\ ext_site \in {<<"biz.com">>, <<"gmail.com">>}
    /\ extracted = <<>>
    /\ pc_x = "start"

ExtractEmails ==
    /\ pc_x = "start"
    /\ extracted' = extract_emails(doc_raw, ext_site)
    /\ pc_x' = "done"
    /\ UNCHANGED <<doc_raw, ext_site>>
    /\ UNCHANGED notExtract

NextExtract == ExtractEmails

SpecExtract == InitExtract /\ [][NextExtract]_vars

\* ------------------------------------------------------------------------
\* scrape_website_emails.py: validate_name, extract_owner
\* ------------------------------------------------------------------------

\* A name is a text whose fragments are words and blanks:
\* "John Smith" is <<"John", " ", "Smith">>.
FALSE_POSITIVE_NAMES ==
    {<<"about", " ", "us">>, <<"contact", " ", "us">>, <<"our", " ", "team">>,
     <<"the", " ", "owner">>, <<"the", " ", "founder">>,
     <<"the", " ", "director">>, <<"learn", " ", "more">>,
     <<"read", " ", "more">>, <<"find", " ", "out">>,
     <<"get", " ", "in", " ", "touch">>}

\* Words longer than 20 characters, words holding a digit, and words whose
\* first character is upper case.
LongWords == {"Wolfeschlegelsteinhausen"}
DigitWords == {"John123"}
UpperFirstWords ==
    {"John", "Smith", "About", "Us", "Michael", "Roberts", "Extra", "John123",
     "Wolfeschlegelsteinhausen", "The", "Owner"}

\* str.split()
split(s) ==
    LET Solid(f) == ~IsBlank(f)
    IN  SelectSeq(s, Solid)

\* A validate_name without the test against FALSE_POSITIVE_NAMES.
validate_name_noDenylist(name) ==
    LET words == split(strip(name))
    IN  /\ name # <<>>
        /\ 2 <= Len(words) /\ Len(words) <= 4
        /\ \A k \in DOMAIN words : words[k] \notin LongWords
        /\ \A k \in DOMAIN name : name[k] \notin DigitWords
        /\ \A k \in DOMAIN words : words[k] \in UpperFirstWords

validate_name(name) ==
    LET words == split(strip(name))
    IN  /\ name # <<>>
        /\ 2 <= Len(words) /\ Len(words) <= 4
        /\ \A k \in DOMAIN words : words[k] \notin LongWords
        /\ \A k \in DOMAIN name : name[k] \notin DigitWords
        /\ lower(name) \notin FALSE_POSITIVE_NAMES
        /\ \A k \in DOMAIN words : words[k] \in UpperFirstWords

\* The first candidate of the list that validate_name accepts, or "".
RECURSIVE FirstValidName(_)
FirstValidName(candidates) ==
    IF candidates = <<>> THEN <<>>
    ELSE IF validate_name(strip(Head(candidates))) THEN strip(Head(candidates))
    ELSE FirstValidName(Tail(candidates))

\* pattern.search(text): of the matches of a pattern only the first one.
FirstMatches(prose) == [k \in DOMAIN prose |-> prose[k][1]]

\* extract_owner: the names of the Person elements first, then the first
\* match of each prose pattern, in the order of OWNER_PATTERNS. doc.persons
\* holds the itemprop=name text of each Person element; doc.prose holds, for
\* each pattern of OWNER_PATTERNS that matches the text, in their order, the
\* captured names of its matches in document order (at least one).
extract_owner(doc) == FirstValidName(doc.persons \o FirstMatches(doc.prose))

\* Candidate names.
JohnSmith      == <<"John", " ", "Smith">>
AboutUs        == <<"About", " ", "Us">>
MichaelRoberts == <<"Michael", " ", "Roberts">>
JohnDigit      == <<"John123", " ", "Smith">>
FiveWords      == <<"John", " ", "Smith", " ", "Michael", " ", "Roberts", " ", "Extra">>
FourWords      == <<"John", " ", "Smith", " ", "Michael", " ", "Roberts">>
OneWord        == <<"John">>
LongName       == <<"John", " ", "Wolfeschlegelsteinhausen">>
LowerName      == <<"john", " ", "smith">>
MixedName      == <<"John", " ", "smith">>
TheOwner       == <<"The", " ", "Owner">>
PaddedAbout    == <<" ", "About", " ", "Us">>
OurTeam        == <<"our", " ", "team">>

\* The candidates given to validate_name.
Names ==
    {<<>>, <<" ">>, JohnSmith, AboutUs, MichaelRoberts, JohnDigit, FiveWords,
     FourWords, OneWord, LongName, LowerName, MixedName, TheOwner, PaddedAbout,
     OurTeam}

\* Most Person elements of a document, and most matches of one prose
\* pattern in its text.
MaxPersons == 1
MaxMatches == 2

\* The names a document holds in its Person elements and after its trigger
\* phrases ("managed by our team" is a match of the first pattern, which
\* ignores case).
DocNames == {JohnSmith, OurTeam, MichaelRoberts}

\* The documents given to extract_owner: at most two of the prose patterns
\* match, each at least once.
OwnerDocs ==
    [emails  : {<<>>},
     persons : SeqsUpTo(DocNames, MaxPersons),
     prose   : SeqsUpTo(SeqsUpTo(DocNames, MaxMatches) \ {<<>>}, 2)]

InitOwner ==
    /\ IdleDedup /\ IdleOutreach /\ IdleExtract /\ IdleEnrich /\ IdleSelect /\ IdleBatch /\ IdleCategory /\ IdleApp
    /\ own_doc \in OwnerDocs
    /\ own_owner = <<>>
    /\ own_name = <<>>
    /\ own_valid = FALSE
    /\ pc_w = "start"

\* extract_owner on the document.
OwnerExtract ==
    /\ pc_w = "start"
    /\ own_owner' = extract_owner(own_doc)
    /\ pc_w' = "extracted"
    /\ UNCHANGED <<own_doc, own_name, own_valid>>
    /\ UNCHANGED notOwner

\* validate_name on a candidate.
OwnerValidate ==
    /\ pc_w = "start"
    /\ \E name \in Names :
        /\ own_name' = name
        /\ own_valid' = validate_name(name)
    /\ pc_w' = "validated"
    /\ UNCHANGED <<own_doc, own_owner>>
    /\ UNCHANGED notOwner

NextOwner == OwnerExtract \/ OwnerValidate

SpecOwner == InitOwner /\ [][NextOwner]_vars

\* ------------------------------------------------------------------------
\* scrape_website_emails.py: fetch_page, enrich_record
\* ------------------------------------------------------------------------

SUBPAGES_TO_TRY == <<"/contact", "/contact-us", "/about", "/about-us">>

Schemes == {"http://", "https://"}
PathFragments == {"/", "/contact", "/contact-us", "/about", "/about-us", "/menu"}

\* The websiteUri values of a listing.
Websites ==
    {<<>>, <<" ">>,
     <<"biz.com">>,
     <<"https://", "WWW.", "Biz.com">>,
     <<"https://", "biz.com", "/contact">>}

\* A parsed document: the email-shaped matches of its text, the names of
\* its Person elements and the names its prose patterns capture.

Documents ==
    {[emails |-> <<>>,               persons |-> <<>>,          prose |-> <<>>],
     [emails |-> <<EmailC>>,         persons |-> <<AboutUs>>,   prose |-> <<>>],
     [emails |-> <<EmailC, EmailA>>, persons |-> <<>>,          prose |-> <<>>],
     [emails |-> <<EmailA>>,         persons |-> <<JohnSmith>>, prose |-> <<>>],
     [emails |-> <<EmailN>>,         persons |-> <<AboutUs>>,   prose |-> << <<JohnSmith>> >>]}

\* What requests.get may give: a page with status 200, an error page (which
\* has a body too), or an exception (timeout, connection error).
ErrorPage == [emails |-> <<EmailInfo>>, persons |-> <<JohnSmith>>, prose |-> <<>>]

Answers ==
    {[raised |-> FALSE, status |-> 200, body |-> d] : d \in Documents}
    \cup {[raised |-> FALSE, status |-> 404, body |-> ErrorPage],
          [raised |-> TRUE,  status |-> 0,   body |-> ErrorPage]}

None == [none |-> TRUE]

\* fetch_page: the parsed body of a 200 answer, None otherwise.
fetch_page(answer) ==
    IF answer.raised THEN None
    ELSE IF answer.status = 200 THEN answer.body
    ELSE None

\* A website read without .strip().
WebsiteOf_unstripped(rec) == rec.website

\* Line 163: record.get("website", "").strip()
WebsiteOf(rec) == strip(rec.website)

\* Lines 167-168.
WithScheme(website) ==
    IF \E scheme \in Schemes : startswith(website, <<scheme>>) THEN website
    ELSE <<"https://">> \o website

\* urlparse(website).netloc, for a website that starts with its scheme:
\* the fragments between the scheme and the path.
Netloc(website) ==
    LET paths == {i \in DOMAIN website : website[i] \in PathFragments}
        last  == IF paths = {} THEN Len(website) ELSE MinOf(paths) - 1
    IN  SubSeq(website, 2, last)

\* f"{parsed.scheme}://{parsed.netloc}"
BaseUrl(website) == <<website[1]>> \o Netloc(website)

\* Line 171: netloc.lower().replace("www.", "")
SiteDomain(website) ==
    LET NotWww(f) == f # "www."
    IN  SelectSeq(lower(Netloc(website)), NotWww)

\* Line 174, urljoin(base_url, sp) for a sub-page that starts with "/".
CandidatePages(website) ==
    <<website>> \o
    [k \in DOMAIN SUBPAGES_TO_TRY |-> BaseUrl(website) \o <<SUBPAGES_TO_TRY[k]>>]

\* Lines 187-189: append the emails not yet known.
RECURSIVE MergeEmails(_, _)
MergeEmails(known, found) ==
    IF found = <<>> THEN known
    ELSE IF Head(found) \in Range(known) THEN MergeEmails(known, Tail(found))
    ELSE MergeEmails(Append(known, Head(found)), Tail(found))

\* Line 195.
EarlyExit(owner, emails, domain_of_site) ==
    /\ owner # <<>>
    /\ emails # <<>>
    /\ endswith(emails[1], domain_of_site)

\* A write that, when the record already carries the best email, takes the
\* next one.
WrittenRecord_avoidsOld(rec, emails, owner) ==
    [rec EXCEPT
        !.email = IF emails = <<>> THEN <<>>
                  ELSE IF Len(emails) > 1 /\ emails[1] = rec.email THEN emails[2]
                  ELSE emails[1],
        !.owner_name = owner]

\* A write that also stores the website as it was fetched.
WrittenRecord_storesUrl(rec, emails, owner) ==
    [rec EXCEPT
        !.email = IF emails # <<>> THEN emails[1] ELSE <<>>,
        !.owner_name = owner,
        !.website = WithScheme(strip(rec.website))]

\* Lines 198-200: the record with its two keys set.
WrittenRecord(rec, emails, owner) ==
    [rec EXCEPT
        !.email = IF emails # <<>> THEN emails[1] ELSE <<>>,
        !.owner_name = owner]

\* A loop that fetches a failed page again instead of moving on.
NextPage_retry(i, soup) == IF soup = None THEN i ELSE i + 1

\* The for loop of line 179 moves to the next page, whatever the fetch gave.
NextPage(i, soup) == i + 1

\* Lines 25-26, in tenths of a second: INTER_RECORD_DELAY = 1.2 and
\* INTER_PAGE_DELAY = 0.5.
INTER_RECORD_DELAY == 12
INTER_PAGE_DELAY == 5

\* The entries of the timeline: time.sleep(secs), and fetch_page of the
\* page at index i of pages (1 is the website URL).
Sleep(secs) == [call |-> "sleep", secs |-> secs, page |-> 0]
Fetch(i) == [call |-> "fetch_page", secs |-> 0, page |-> i]

\* A loop that never sleeps between the pages of a business.
PageDelayDue_never(i) == FALSE

\* Lines 180-181: `if i > 0`, for the page at index i counted from 1.
PageDelayDue(i) == i > 1

\* A main that sleeps after every record, the last one too.
RecordDelayDue_always(i, n) == TRUE

\* Lines 227-228: `if i < len(records) - 1`, for the record at index i
\* counted from 1 of n records.
RecordDelayDue(i, n) == i < n

InitEnrich ==
    /\ IdleDedup /\ IdleOutreach /\ IdleExtract /\ IdleSelect /\ IdleOwner /\ IdleBatch /\ IdleCategory /\ IdleApp
    /\ \E w \in Websites : record = [website |-> w, email |-> <<>>, owner_name |-> <<>>]
    /\ web = <<>>
    /\ site_domain = <<>>
    /\ pages = <<>>
    /\ page_i = 0
    /\ all_emails = <<>>
    /\ owner_name = <<>>
    /\ fetch_log = <<>>
    /\ timeline = <<>>
    /\ call_no = 1
    /\ first_result = <<>>
    /\ pc_e = "start"

\* Lines 163-177: no website, or the candidate pages.
EnrichStart ==
    /\ pc_e = "start"
    /\ LET website == WebsiteOf(record)
       IN  IF website = <<>>
               THEN /\ pc_e' = "done"
                    /\ UNCHANGED <<site_domain, pages, page_i, all_emails, owner_name>>
               ELSE /\ site_domain' = SiteDomain(WithScheme(website))
                    /\ pages' = CandidatePages(WithScheme(website))
                    /\ page_i' = 1
                    /\ all_emails' = <<>>
                    /\ owner_name' = <<>>
                    /\ pc_e' = "loop"
    /\ UNCHANGED <<record, web, fetch_log, timeline, call_no, first_result>>
    /\ UNCHANGED notEnrich

\* Lines 179-196: one turn of the loop. The site answers a URL it was not
\* asked before with any response, and a URL it was asked before as before.
EnrichVisit ==
    /\ pc_e = "loop"
    /\ LET url == pages[page_i]
       IN  \E answer \in Answers :
            /\ url \in DOMAIN web => answer = web[url]
            /\ web' = IF url \in DOMAIN web THEN web ELSE web @@ (url :> answer)
            /\ fetch_log' = Append(fetch_log, url)
            /\ timeline' = timeline
                    \o (IF PageDelayDue(page_i) THEN <<Sleep(INTER_PAGE_DELAY)>>
                                                ELSE <<>>)
                    \o <<Fetch(page_i)>>
            /\ LET soup == fetch_page(answer) IN
               IF soup = None
                   THEN /\ UNCHANGED <<all_emails, owner_name>>
                        /\ page_i' = NextPage(page_i, soup)
                        /\ pc_e' = IF page_i' > Len(pages) THEN "write" ELSE "loop"
                   ELSE LET emails == MergeEmails(all_emails,
                                                  extract_emails(soup.emails, site_domain))
                            owner  == IF owner_name = <<>> THEN extract_owner(soup)
                                                           ELSE owner_name
                        IN  /\ all_emails' = emails
                            /\ owner_name' = owner
                            /\ IF EarlyExit(owner, emails, site_domain)
                                   THEN /\ page_i' = page_i
                                        /\ pc_e' = "write"
                                   ELSE /\ page_i' = NextPage(page_i, soup)
                                        /\ pc_e' = IF page_i' > Len(pages)
                                                       THEN "write" ELSE "loop"
    /\ UNCHANGED <<record, site_domain, pages, call_no, first_result>>
    /\ UNCHANGED notEnrich

\* Lines 198-200.
EnrichWrite ==
    /\ pc_e = "write"
    /\ record' = WrittenRecord(record, all_emails, owner_name)
    /\ pc_e' = "done"
    /\ UNCHANGED <<web, site_domain, pages, page_i, all_emails, owner_name,
                   fetch_log, timeline, call_no, first_result>>
    /\ UNCHANGED notEnrich

\* The record as google_maps_search.py made it: email and owner_name empty.
RawListing(rec) == [rec EXCEPT !.email = <<>>, !.owner_name = <<>>]

\* enrich_record is called once more, on the record the first call returned
\* or on a listing equal to the raw one; the web answers as it did.
EnrichAgain ==
    /\ pc_e = "done"
    /\ call_no = 1
    /\ first_result' = record
    /\ record' \in {record, RawListing(record)}
    /\ call_no' = 2
    /\ fetch_log' = <<>>
    /\ timeline' = <<>>
    /\ pc_e' = "start"
    /\ UNCHANGED <<web, site_domain, pages, page_i, all_emails, owner_name>>
    /\ UNCHANGED notEnrich

NextEnrich == EnrichStart \/ EnrichVisit \/ EnrichWrite \/ EnrichAgain

SpecEnrich == InitEnrich /\ [][NextEnrich]_vars

\* ------------------------------------------------------------------------
\* The batch drivers (run_targeted_cities.py, run_niche_batch.py) and the
\* main of google_maps_search.py and of scrape_website_emails.py
\* ------------------------------------------------------------------------

\* The (niche, city) pairs a driver goes through are 1..MaxJobs.
MaxJobs == 2

MAX_PAGES == 3

\* A file of .tmp: whether it exists, and the list json.dump wrote to it.
NoFile == [exists |-> FALSE, data |-> <<>>]
File(list) == [exists |-> TRUE, data |-> list]

\* Bytes of one record as json.dump(.., indent=2) writes it with its nine
\* keys and every value empty: a lower bound for any record.
RecordBytes == 180

\* os.path.getsize of a file json.dump(list, f, indent=2) wrote: "[]" for
\* the empty list, and at least 2 + RecordBytes bytes for any other.
getsize(file) ==
    IF file.data = <<>> THEN 2 ELSE 2 + Len(file.data) * RecordBytes

\* A resumability test that never skips.
AlreadyDone_never(file) == FALSE

\* os.path.exists(path) and os.path.getsize(path) > 10: the test the
\* drivers make before they run a tool (run_targeted_cities.py lines 96,
\* 107) and the tools make before they work (google_maps_search.py line 129,
\* scrape_website_emails.py line 213).
AlreadyDone(file) == file.exists /\ getsize(file) > 10

\* A place as the API gives it, with the two keys search_places adds
\* (lines 97-98) empty.
Place == [website |-> <<"biz.com">>, email |-> <<>>, owner_name |-> <<>>]

\* What a POST to the Places API may give: a page of places with or
\* without nextPageToken, an HTTP error status, a timeout, or another
\* exception (connection error, invalid JSON).
ApiAnswers ==
    {[kind |-> "ok", status |-> 200, places |-> <<Place>>, token |-> "token"],
     [kind |-> "ok", status |-> 200, places |-> <<Place>>, token |-> ""],
     [kind |-> "ok", status |-> 200, places |-> <<>>,      token |-> ""],
     [kind |-> "http",    status |-> 429, places |-> <<>>, token |-> ""],
     [kind |-> "http",    status |-> 500, places |-> <<>>, token |-> ""],
     [kind |-> "timeout", status |-> 0,   places |-> <<>>, token |-> ""],
     [kind |-> "error",   status |-> 0,   places |-> <<>>, token |-> ""]}

\* A retry after any HTTP error status.
ShouldRetry_anyStatus(answer) == answer.kind = "http"

\* Lines 68-71: an HTTPError whose status is 429.
ShouldRetry(answer) == answer.kind = "http" /\ answer.status = 429

\* Lines 89-99: the records made of the places of a page. The API gives
\* other places on every page: the id of a place of page num is num.
Listed(places, num) ==
    [k \in DOMAIN places |->
        [place_id |-> num, website |-> places[k].website,
         email |-> <<>>, owner_name |-> <<>>]]

\* Lines 84-109, for the data of a page: the locals after it, and whether
\* the loop goes on ("searching") or is left ("write_raw").
AfterPage(answer, num, places) ==
    IF answer.places = <<>>
        THEN [all_places |-> places, page_token |-> "", page_num |-> num,
              pc |-> "write_raw"]
    ELSE IF answer.token = ""
        THEN [all_places |-> places \o Listed(answer.places, num), page_token |-> "",
              page_num |-> num, pc |-> "write_raw"]
    ELSE IF num < MAX_PAGES
        THEN [all_places |-> places \o Listed(answer.places, num),
              page_token |-> answer.token, page_num |-> num + 1, pc |-> "searching"]
    ELSE [all_places |-> places \o Listed(answer.places, num),
          page_token |-> answer.token, page_num |-> num, pc |-> "write_raw"]

\* The pages of the one site the places of the model have, and what its
\* pages answer during a batch: the homepage raises or answers, the
\* sub-pages are missing or answer.
BatchPages == CandidatePages(WithScheme(WebsiteOf(Place)))

BatchAnswers ==
    [home |-> {[raised |-> TRUE,  status |-> 0,   body |-> ErrorPage],
               [raised |-> FALSE, status |-> 200,
                body |-> [emails |-> <<EmailC>>, persons |-> <<>>, prose |-> <<>>]]},
     sub  |-> {[raised |-> FALSE, status |-> 404, body |-> ErrorPage],
               [raised |-> FALSE, status |-> 200,
                body |-> [emails |-> <<EmailA>>, persons |-> <<JohnSmith>>,
                          prose |-> <<>>]]}]

BatchWebs ==
    {[url \in Range(BatchPages) |-> IF url = BatchPages[1] THEN home ELSE sub] :
        home \in BatchAnswers.home, sub \in BatchAnswers.sub}

\* An empty .tmp folder, and a driver about to take up its first pair.
InitBatch ==
    /\ IdleDedup /\ IdleOutreach /\ IdleExtract /\ IdleSelect /\ IdleOwner /\ IdleCategory /\ IdleApp
    /\ run = "earlier"
    /\ job = 1
    /\ tmp = [raw |-> [j \in 1..MaxJobs |-> NoFile],
              enriched |-> [j \in 1..MaxJobs |-> NoFile]]
    /\ earlier_tmp = <<>>
    /\ page_num = 0
    /\ page_token = ""
    /\ all_places = <<>>
    /\ search_log = <<>>
    /\ raw_records = <<>>
    /\ rec_i = 0
    /\ enriched = <<>>
    /\ pc_b = "search"
    /\ record = <<>>
    /\ web \in BatchWebs
    /\ site_domain = <<>>
    /\ pages = <<>>
    /\ page_i = 0
    /\ all_emails = <<>>
    /\ owner_name = <<>>
    /\ fetch_log = <<>>
    /\ timeline = <<>>
    /\ call_no = 0
    /\ first_result = <<>>
    /\ pc_e = "idle"

\* Step 1 of a pair. run_targeted_cities.py tests the raw file itself
\* (line 96) and runs google_maps_search.py otherwise; run_niche_batch.py
\* always runs it (line 78), and its main makes the same test (line 129):
\* either way the search is skipped exactly when the test holds.
DriverSearch ==
    /\ pc_b = "search"
    /\ search_log' = <<>>
    /\ IF AlreadyDone(tmp.raw[job])
           THEN /\ pc_b' = "scrape"
                /\ UNCHANGED <<page_num, page_token, all_places>>
           ELSE /\ page_num' = 1
                /\ page_token' = ""
                /\ all_places' = <<>>
                /\ pc_b' = "searching"
    /\ UNCHANGED <<run, job, tmp, earlier_tmp, raw_records, rec_i, enriched>>
    /\ UNCHANGED enrVars
    /\ UNCHANGED notBatch

\* search_places, lines 56-109: the request of a page. A timeout or an HTTP
\* error other than 429 ends the pagination; 429 leads to the retry; any
\* other exception is not caught: the tool exits with an error, writes no
\* file, and the driver goes on to the next pair (run_targeted_cities.py
\* lines 100-103).
SearchPost ==
    /\ pc_b = "searching"
    /\ \E answer \in ApiAnswers :
        /\ search_log' = Append(search_log, [page |-> page_num, attempt |-> 1,
                                             kind |-> answer.kind,
                                             status |-> answer.status,
                                             places |-> answer.places])
        /\ IF answer.kind = "ok"
               THEN LET after == AfterPage(answer, page_num, all_places)
                    IN  /\ all_places' = after.all_places
                        /\ page_token' = after.page_token
                        /\ page_num' = after.page_num
                        /\ pc_b' = after.pc
               ELSE IF answer.kind \in {"timeout", "http"}
                   THEN /\ UNCHANGED <<all_places, page_token, page_num>>
                        /\ pc_b' = IF ShouldRetry(answer) THEN "retry"
                                                          ELSE "write_raw"
               ELSE /\ all_places' = <<>>
                    /\ page_token' = ""
                    /\ page_num' = 0
                    /\ pc_b' = "next"
    /\ UNCHANGED <<run, job, tmp, earlier_tmp, raw_records, rec_i, enriched>>
    /\ UNCHANGED enrVars
    /\ UNCHANGED notBatch

\* search_places, lines 71-80: the one retry after a 429 and the 60 s wait.
\* Whatever fails now ends the pagination.
SearchRetry ==
    /\ pc_b = "retry"
    /\ \E answer \in ApiAnswers :
        /\ search_log' = Append(search_log, [page |-> page_num, attempt |-> 2,
                                             kind |-> answer.kind,
                                             status |-> answer.status,
                                             places |-> answer.places])
        /\ IF answer.kind = "ok"
               THEN LET after == AfterPage(answer, page_num, all_places)
                    IN  /\ all_places' = after.all_places
                        /\ page_token' = after.page_token
                        /\ page_num' = after.page_num
                        /\ pc_b' = after.pc
               ELSE /\ UNCHANGED <<all_places, page_token, page_num>>
                    /\ pc_b' = "write_raw"
    /\ UNCHANGED <<run, job, tmp, earlier_tmp, raw_records, rec_i, enriched>>
    /\ UNCHANGED enrVars
    /\ UNCHANGED notBatch

\* google_maps_search.py main, lines 134-140: the places search_places
\* returned are written, and the tool ends normally; its locals are gone.
SearchWrite ==
    /\ pc_b = "write_raw"
    /\ tmp' = [tmp EXCEPT !.raw[job] = File(all_places)]
    /\ search_log' = <<>>
    /\ all_places' = <<>>
    /\ page_token' = ""
    /\ page_num' = 0
    /\ pc_b' = "scrape"
    /\ UNCHANGED <<run, job, earlier_tmp, raw_records, rec_i, enriched>>
    /\ UNCHANGED enrVars
    /\ UNCHANGED notBatch

\* Step 2 of a pair: the same test on the enriched file (run_targeted_cities.py
\* line 107, scrape_website_emails.py line 213), then lines 208-221 of the
\* scraper's main.
DriverScrape ==
    /\ pc_b = "scrape"
    /\ IF AlreadyDone(tmp.enriched[job])
           THEN /\ pc_b' = "next"
                /\ UNCHANGED <<raw_records, rec_i, enriched>>
       ELSE IF ~tmp.raw[job].exists
           THEN /\ pc_b' = "next"
                /\ UNCHANGED <<raw_records, rec_i, enriched>>
       ELSE /\ raw_records' = tmp.raw[job].data
            /\ rec_i' = 1
            /\ enriched' = <<>>
            /\ pc_b' = IF tmp.raw[job].data = <<>> THEN "write_enriched"
                                                   ELSE "enriching"
    /\ UNCHANGED <<run, job, tmp, earlier_tmp, page_num, page_token, all_places,
                   search_log>>
    /\ UNCHANGED enrVars
    /\ UNCHANGED notBatch

\* Line 226: enrich_record is called on the next record.
ScrapeRecord ==
    /\ pc_b = "enriching"
    /\ pc_e = "idle"
    /\ record' = raw_records[rec_i]
    /\ fetch_log' = <<>>
    /\ pc_e' = "start"
    /\ UNCHANGED <<web, site_domain, pages, page_i, all_emails, owner_name,
                   timeline, call_no, first_result>>
    /\ UNCHANGED batchVars
    /\ UNCHANGED notBatch

\* Lines 223-228: what enrich_record returned is appended, the process
\* sleeps unless this was the last record, and the loop goes on.
ScrapeAppend ==
    /\ pc_b = "enriching"
    /\ pc_e = "done"
    /\ enriched' = Append(enriched, record)
    /\ pc_e' = "idle"
    /\ timeline' = IF RecordDelayDue(rec_i, Len(raw_records))
                       THEN Append(timeline, Sleep(INTER_RECORD_DELAY))
                       ELSE timeline
    /\ IF rec_i < Len(raw_records)
           THEN rec_i' = rec_i + 1 /\ pc_b' = "enriching"
           ELSE rec_i' = rec_i /\ pc_b' = "write_enriched"
    /\ UNCHANGED <<run, job, tmp, earlier_tmp, page_num, page_token, all_places,
                   search_log, raw_records>>
    /\ UNCHANGED <<record, web, site_domain, pages, page_i, all_emails, owner_name,
                   fetch_log, call_no, first_result>>
    /\ UNCHANGED notBatch

\* Lines 230-231: the enriched records are written, and the process ends.
ScrapeWrite ==
    /\ pc_b = "write_enriched"
    /\ tmp' = [tmp EXCEPT !.enriched[job] = File(enriched)]
    /\ timeline' = <<>>
    /\ pc_b' = "next"
    /\ UNCHANGED <<run, job, earlier_tmp, page_num, page_token, all_places,
                   search_log, raw_records, rec_i, enriched>>
    /\ UNCHANGED <<record, web, site_domain, pages, page_i, all_emails, owner_name,
                   fetch_log, call_no, first_result, pc_e>>
    /\ UNCHANGED notBatch

\* The driver's loop goes on to the next pair; after the last pair the run
\* is over, and the driver is run a second time on the .tmp folder it left.
DriverNext ==
    /\ pc_b = "next"
    /\ IF job < MaxJobs
           THEN /\ job' = job + 1
                /\ pc_b' = "search"
                /\ UNCHANGED <<run, earlier_tmp>>
       ELSE IF run = "earlier"
           THEN /\ run' = "later"
                /\ earlier_tmp' = tmp
                /\ job' = 1
                /\ pc_b' = "search"
       ELSE /\ pc_b' = "finished"
            /\ UNCHANGED <<run, job, earlier_tmp>>
    /\ UNCHANGED <<tmp, page_num, page_token, all_places, search_log,
                   raw_records, rec_i, enriched>>
    /\ UNCHANGED enrVars
    /\ UNCHANGED notBatch

NextBatch ==
    \/ DriverSearch \/ SearchPost \/ SearchRetry \/ SearchWrite
    \/ DriverScrape \/ ScrapeRecord \/ ScrapeAppend \/ ScrapeWrite
    \/ DriverNext
    \/ EnrichStart \/ EnrichVisit \/ EnrichWrite

SpecBatch == InitBatch /\ [][NextBatch]_vars

\* ------------------------------------------------------------------------
\* build_qualified_cafes_500.py
\* ------------------------------------------------------------------------

\* A lead of the pool: its email is its key (n stands for the n-th distinct
\* email met), the other fields are empty or not.
LeadShapes == [phone : {"", "555-0100"}, owner_name : {"", "Ann Lee"},
               website : {"", "biz.com"}]

\* Leads with the emails from + 1, from + 2, ... in this order.
LeadLists(from, n) ==
    {[k \in 1..n |-> [email |-> from + k, phone |-> shapes[k].phone,
                      owner_name |-> shapes[k].owner_name,
                      website |-> shapes[k].website]] :
        shapes \in [1..n -> LeadShapes]}

\* A score that forgets the sign: the sort then puts the best records last.
quality_score_ascending(r) ==
    (IF r.phone # "" THEN 2 ELSE 0)
    + (IF r.owner_name # "" THEN 3 ELSE 0)
    + (IF r.website # "" THEN 1 ELSE 0)

\* Lines 277-282: the negated score, so that higher is better.
quality_score(r) ==
    0 - ((IF r.phone # "" THEN 2 ELSE 0)
         + (IF r.owner_name # "" THEN 3 ELSE 0)
         + (IF r.website # "" THEN 1 ELSE 0))

\* all_records[:n]
Truncate(s, n) == SubSeq(s, 1, IF Len(s) < n THEN Len(s) ELSE n)

InitSelect ==
    /\ IdleDedup /\ IdleOutreach /\ IdleExtract /\ IdleEnrich /\ IdleOwner /\ IdleBatch /\ IdleCategory /\ IdleApp
    /\ \E n \in 0..MaxPool : existing \in LeadLists(0, n)
    /\ new_leads = <<>>
    /\ final = <<>>
    /\ needed = -1
    /\ output_written = FALSE
    /\ pc_s = "start"

\* Line 262: needed = max(0, TARGET_COUNT - len(existing))
Needed(leads) ==
    IF TARGET_COUNT - Len(leads) > 0 THEN TARGET_COUNT - Len(leads) ELSE 0

\* main, lines 261-271: when leads are missing, scrape_more_cafes returns
\* leads whose emails are new (lines 225-229), as many as the expansion
\* cities give.
SelectScrape ==
    /\ pc_s = "start"
    /\ needed' = Needed(existing)
    /\ IF needed' > 0
           THEN \E m \in 0..(MaxPool - Len(existing)) :
                    new_leads' \in LeadLists(Len(existing), m)
           ELSE new_leads' = <<>>
    /\ pc_s' = "merged"
    /\ UNCHANGED <<existing, final, output_written>>
    /\ UNCHANGED notSelect

\* main, lines 273-312: merge, sort by quality, keep the first TARGET_COUNT
\* records, write them to the output CSV and print the statistics. Nothing
\* on this path looks at the size of the pool.
SelectRank ==
    /\ pc_s = "merged"
    /\ LET all_records == existing \o new_leads
           sorted == SortedBy(all_records,
                              [i \in DOMAIN all_records |-> quality_score(all_records[i])])
       IN  final' = Truncate(sorted, TARGET_COUNT)
    /\ output_written' = TRUE
    /\ pc_s' = "done"
    /\ UNCHANGED <<existing, new_leads, needed>>
    /\ UNCHANGED notSelect

NextSelect == SelectScrape \/ SelectRank

SpecSelect == InitSelect /\ [][NextSelect]_vars

\* ------------------------------------------------------------------------
\* build_leads_csv.py: pick_category
\* ------------------------------------------------------------------------

\* Most tags of a listing.
MaxTags == 3

\* A tag is a text whose fragments are pieces of words and "_":
\* "steak_house" is <<"s", "tea", "k", "_", "house">>.
GENERIC_TYPES ==
    {<<"point", "_", "of", "_", "interest">>, <<"establishment">>, <<"food">>,
     <<"store">>, <<"health">>, <<"gym">>, <<"local", "_", "business">>,
     <<"premise">>, <<"route">>, <<"street", "_", "address">>, <<"locality">>,
     <<"political">>, <<"geocode">>}

Cafe            == <<"cafe">>
CoffeeShop      == <<"coffee", "_", "shop">>
SteakHouse      == <<"s", "tea", "k", "_", "house">>
TeaHouse        == <<"tea", "_", "house">>
Establishment   == <<"establishment">>
PointOfInterest == <<"point", "_", "of", "_", "interest">>

\* The tags a listing may carry, and the niches searched for.
Tags == {Cafe, CoffeeShop, SteakHouse, TeaHouse, Establishment, PointOfInterest}
Niches == {<<"tea">>, <<"Coffee", " ", "shops">>, <<"cafes">>}

\* `word in t`: the word's text occurs somewhere in the tag's text.
Contains(t, w) ==
    \E i \in 1..(Len(t) - Len(w) + 1) : SubSeq(t, i, i + Len(w) - 1) = w

\* t.replace("_", " ")
ReplaceUnderscores(t) == [k \in DOMAIN t |-> IF t[k] = "_" THEN " " ELSE t[k]]

\* Lines 48-56.
pick_category(types, niche) ==
    LET NotGeneric(t) == t \notin GENERIC_TYPES
        specific    == SelectSeq(types, NotGeneric)
        niche_words == Range(split(lower(niche)))
        matching    == {k \in DOMAIN specific :
                            \E word \in niche_words :
                                Contains(lower(specific[k]), <<word>>)}
    IN  IF specific # <<>>
            THEN IF matching # {}
                     THEN ReplaceUnderscores(specific[MinOf(matching)])
                     ELSE ReplaceUnderscores(specific[1])
            ELSE niche

InitCategory ==
    /\ IdleDedup /\ IdleOutreach /\ IdleExtract /\ IdleEnrich /\ IdleSelect /\ IdleOwner /\ IdleBatch /\ IdleApp
    /\ cat_types \in SeqsUpTo(Tags, MaxTags)
    /\ cat_niche \in Niches
    /\ category = <<>>
    /\ pc_c = "start"

\* normalize, line 126: the category of a record.
CategoryPick ==
    /\ pc_c = "start"
    /\ category' = pick_category(cat_types, cat_niche)
    /\ pc_c' = "done"
    /\ UNCHANGED <<cat_types, cat_niche>>
    /\ UNCHANGED notCategory

NextCategory == CategoryPick

SpecCategory == InitCategory /\ [][NextCategory]_vars

\* ------------------------------------------------------------------------
\* app.py: /run, run_pipeline, cleanup_intermediates, /stream/<job_id>
\* ------------------------------------------------------------------------

\* The job ids uuid gives, in the order they are given. Every job is for the
\* same niche and the same single city, so that all jobs work on the one
\* raw and the one enriched file of that pair.
JobIds == <<"a1", "b2">>

\* Most clients that open a stream.
MaxClients == 1

\* The niche values a /run request may carry.
RunNiches == {<<>>, <<" ">>, <<"cafes">>}

\* The messages run_pipeline logs (what follows the tag is left out); the
\* lines the subprocesses print are put on the queue between them and are
\* not followed here.
MsgStart  == <<"[START]">>
MsgStep1  == <<"\n", "Step 1 / 3">>
MsgSkip   == <<"[SKIP]">>
MsgSearch == <<"[SEARCH]">>
MsgStep2  == <<"\n", "Step 2 / 3">>
MsgScrape == <<"[SCRAPE]">>
MsgStep3  == <<"\n", "Step 3 / 3">>
MsgDone   == <<"\n", "[DONE]">>
MsgClean  == <<"[CLEAN]">>
MsgError  == <<"\n", "[ERROR]">>

\* What q.put(msg) puts on the queue; the sentinel is None.
Item(msg) == [msg |-> msg]

\* Line 223: msg.replace("\n", " | ")
Escape(msg) == [k \in DOMAIN msg |-> IF msg[k] = "\n" THEN " | " ELSE msg[k]]

\* A file of .tmp as the jobs see it: its content once closed, whether it
\* was truncated by an open(.., "w") that is not closed yet, and the jobs
\* whose tool holds it open for writing.
Closed(file) == [file |-> file, torn |-> FALSE, writers |-> {}]

\* open(path, "w") by the tool of job j: the file exists and is empty.
Opened(entry, j) ==
    [file |-> File(<<>>), torn |-> TRUE, writers |-> entry.writers \cup {j}]

\* The with block ends: json.dump's output is flushed and the file closed.
\* A handle whose file was removed meanwhile writes to no file of .tmp.
Flushed(entry, j, list) ==
    IF j \in entry.writers
        THEN [file |-> File(list), torn |-> FALSE, writers |-> entry.writers \ {j}]
        ELSE entry

\* os.remove(path): the name is gone, and with it the link of every open
\* handle to it.
Removed == Closed(NoFile)

\* json.load of the file fails: nothing, or half a list, is in it.
Unreadable(entry) == entry.torn

\* A new thread, and the fields of a job (line 197).
NewThread == [pc |-> "start", places |-> <<>>, records |-> <<>>, files |-> <<>>]
NewJob == [queue |-> <<>>, status |-> "running", csv |-> None]

\* The job with the id JobIds[j] is job j of jobs, and thread[j] its thread.
Put(j, msgs) ==
    [jobs EXCEPT ![j].queue = @ \o [k \in DOMAIN msgs |-> Item(msgs[k])]]
Goto(j, pc) == [thread EXCEPT ![j].pc = pc]

\* What subprocess.Popen does in run_streamed (line 84): it starts the
\* tool, or raises OSError.
PopenOutcomes == {"started", "raises"}

\* What search_places gives the search tool: places, no place, or an
\* exception that ends the tool without a file.
SearchOutcomes ==
    {[raised |-> FALSE, places |-> <<Place>>],
     [raised |-> FALSE, places |-> <<>>],
     [raised |-> TRUE,  places |-> <<>>]}

InitApp ==
    /\ IdleDedup /\ IdleOutreach /\ IdleExtract /\ IdleEnrich /\ IdleSelect /\ IdleOwner /\ IdleBatch /\ IdleCategory
    /\ api_key \in BOOLEAN
    /\ jobs = <<>>
    /\ thread = <<>>
    /\ disk = [raw |-> Closed(NoFile), enriched |-> Closed(NoFile), csvs |-> <<>>]
    /\ streamed = [j \in DOMAIN JobIds |-> <<>>]
    /\ reader = [j \in DOMAIN JobIds |-> "none"]
    /\ response = None

\* run, lines 185-202: a request without niche or without API key is
\* answered 400; any other creates the job and starts its thread.
RunRequest ==
    /\ Len(jobs) < Len(JobIds)
    /\ \E niche \in RunNiches :
        IF strip(niche) = <<>>
            THEN /\ response' = [code |-> 400, error |-> "Niche is required"]
                 /\ UNCHANGED <<jobs, thread>>
        ELSE IF ~api_key
            THEN /\ response' = [code |-> 400, error |-> "GOOGLE_MAPS_API_KEY not set"]
                 /\ UNCHANGED <<jobs, thread>>
        ELSE /\ jobs' = Append(jobs, NewJob)
             /\ thread' = Append(thread, NewThread)
             /\ response' = [code |-> 200, job_id |-> JobIds[Len(jobs) + 1]]
    /\ UNCHANGED <<api_key, disk, streamed, reader>>
    /\ UNCHANGED notApp

\* run_pipeline, lines 103-114.
PipelineStart(j) ==
    /\ j \in DOMAIN thread
    /\ thread[j].pc = "start"
    /\ jobs' = Put(j, <<MsgStart, MsgStep1>>)
    /\ thread' = Goto(j, "search_test")
    /\ UNCHANGED <<api_key, disk, streamed, reader, response>>
    /\ UNCHANGED notApp

\* Lines 115-123: the cache test of step 1.
PipelineSearchTest(j) ==
    /\ j \in DOMAIN thread
    /\ thread[j].pc = "search_test"
    /\ IF AlreadyDone(disk.raw.file)
           THEN /\ jobs' = Put(j, <<MsgSkip>>)
                /\ thread' = Goto(j, "scrape_glob")
           ELSE /\ jobs' = Put(j, <<MsgSearch>>)
                /\ thread' = Goto(j, "search_popen")
    /\ UNCHANGED <<api_key, disk, streamed, reader, response>>
    /\ UNCHANGED notApp

\* Lines 124-128, run_streamed: Popen raises, which ends the thread, or the
\* search tool starts and makes its own test (google_maps_search.py line 129).
PipelineSearchPopen(j) ==
    /\ j \in DOMAIN thread
    /\ thread[j].pc = "search_popen"
    /\ \E outcome \in PopenOutcomes :
        thread' = Goto(j, IF outcome = "raises" THEN "died"
                          ELSE IF AlreadyDone(disk.raw.file) THEN "scrape_glob"
                          ELSE "searching")
    /\ UNCHANGED <<api_key, jobs, disk, streamed, reader, response>>
    /\ UNCHANGED notApp

\* google_maps_search.py lines 134-137: search_places returns and the raw
\* file is opened for writing, or the tool ends on an exception.
ToolSearchOpen(j) ==
    /\ j \in DOMAIN thread
    /\ thread[j].pc = "searching"
    /\ \E outcome \in SearchOutcomes :
        IF outcome.raised
            THEN /\ thread' = Goto(j, "scrape_glob")
                 /\ UNCHANGED disk
            ELSE /\ thread' = [thread EXCEPT ![j].pc = "search_close",
                                             ![j].places = outcome.places]
                 /\ disk' = [disk EXCEPT !.raw = Opened(@, j)]
    /\ UNCHANGED <<api_key, jobs, streamed, reader, response>>
    /\ UNCHANGED notApp

\* google_maps_search.py line 138 and the end of the with block.
ToolSearchClose(j) ==
    /\ j \in DOMAIN thread
    /\ thread[j].pc = "search_close"
    /\ disk' = [disk EXCEPT !.raw = Flushed(@, j, thread[j].places)]
    /\ thread' = [thread EXCEPT ![j].pc = "scrape_glob", ![j].places = <<>>]
    /\ UNCHANGED <<api_key, jobs, streamed, reader, response>>
    /\ UNCHANGED notApp

\* Lines 133-136: the raw files of the niche are listed.
PipelineScrapeGlob(j) ==
    /\ j \in DOMAIN thread
    /\ thread[j].pc = "scrape_glob"
    /\ jobs' = Put(j, <<MsgStep2>>)
    /\ thread' = Goto(j, IF disk.raw.file.exists THEN "scrape_test" ELSE "build")
    /\ UNCHANGED <<api_key, disk, streamed, reader, response>>
    /\ UNCHANGED notApp

\* Lines 137-145: the cache test of step 2.
PipelineScrapeTest(j) ==
    /\ j \in DOMAIN thread
    /\ thread[j].pc = "scrape_test"
    /\ IF AlreadyDone(disk.enriched.file)
           THEN /\ jobs' = Put(j, <<MsgSkip>>)
                /\ thread' = Goto(j, "build")
           ELSE /\ jobs' = Put(j, <<MsgScrape>>)
                /\ thread' = Goto(j, "scrape_popen")
    /\ UNCHANGED <<api_key, disk, streamed, reader, response>>
    /\ UNCHANGED notApp

\* Lines 146-150, run_streamed: Popen raises, or the scraper starts
\* (scrape_website_emails.py lines 208-218): it ends when its input is
\* missing, when its output is there already, and when json.load fails;
\* else it has the raw records.
PipelineScrapePopen(j) ==
    /\ j \in DOMAIN thread
    /\ thread[j].pc = "scrape_popen"
    /\ \E outcome \in PopenOutcomes :
        IF outcome = "raises" THEN thread' = Goto(j, "died")
        ELSE IF ~disk.raw.file.exists THEN thread' = Goto(j, "build")
        ELSE IF AlreadyDone(disk.enriched.file) THEN thread' = Goto(j, "build")
        ELSE IF Unreadable(disk.raw) THEN thread' = Goto(j, "build")
        ELSE thread' = [thread EXCEPT ![j].pc = "scraping",
                                      ![j].records = disk.raw.file.data]
    /\ UNCHANGED <<api_key, jobs, disk, streamed, reader, response>>
    /\ UNCHANGED notApp

\* scrape_website_emails.py lines 223-230: the records are enriched (what
\* the sites give is not followed here) and the enriched file is opened.
ToolScrapeOpen(j) ==
    /\ j \in DOMAIN thread
    /\ thread[j].pc = "scraping"
    /\ disk' = [disk EXCEPT !.enriched = Opened(@, j)]
    /\ thread' = Goto(j, "scrape_close")
    /\ UNCHANGED <<api_key, jobs, streamed, reader, response>>
    /\ UNCHANGED notApp

\* scrape_website_emails.py line 231 and the end of the with block.
ToolScrapeClose(j) ==
    /\ j \in DOMAIN thread
    /\ thread[j].pc = "scrape_close"
    /\ disk' = [disk EXCEPT !.enriched = Flushed(@, j, thread[j].records)]
    /\ thread' = [thread EXCEPT ![j].pc = "build", ![j].records = <<>>]
    /\ UNCHANGED <<api_key, jobs, streamed, reader, response>>
    /\ UNCHANGED notApp

\* Lines 153-158: build_leads_csv.py is run. It ends without a CSV when
\* there is no enriched file (load_enriched_files, line 62) and when
\* json.load fails; else it writes the CSV with its timestamp in the name.
PipelineBuild(j) ==
    /\ j \in DOMAIN thread
    /\ thread[j].pc = "build"
    /\ jobs' = Put(j, <<MsgStep3>>)
    /\ \E outcome \in PopenOutcomes :
        IF outcome = "raises"
            THEN thread' = Goto(j, "died") /\ UNCHANGED disk
        ELSE IF ~disk.enriched.file.exists \/ Unreadable(disk.enriched)
            THEN thread' = Goto(j, "find_csv") /\ UNCHANGED disk
        ELSE /\ thread' = Goto(j, "find_csv")
             /\ disk' = [disk EXCEPT !.csvs = Append(@, j)]
    /\ UNCHANGED <<api_key, streamed, reader, response>>
    /\ UNCHANGED notApp

\* The CSV files of the niche are kept in the order of their timestamps:
\* csvs[n] is the job whose build step wrote the n-th of them.
CsvName(n) == [name |-> <<"leads_cafes_", n, ".csv">>]

\* sorted(glob(..), reverse=True)[0]
Latest(csvs) == CsvName(Len(csvs))

\* Lines 160-173: the latest CSV of the niche, whoever wrote it.
PipelineFindCsv(j) ==
    /\ j \in DOMAIN thread
    /\ thread[j].pc = "find_csv"
    /\ IF disk.csvs # <<>>
           THEN /\ jobs' = [jobs EXCEPT ![j].csv = Latest(disk.csvs),
                                        ![j].status = "done",
                                        ![j].queue = Append(@, Item(MsgDone))]
                /\ thread' = Goto(j, "cleanup_glob")
           ELSE /\ jobs' = [jobs EXCEPT ![j].status = "error",
                                        ![j].queue = Append(@, Item(MsgError))]
                /\ thread' = Goto(j, "sentinel")
    /\ UNCHANGED <<api_key, disk, streamed, reader, response>>
    /\ UNCHANGED notApp

\* glob.glob of a pattern: the names that exist, raw files first.
Globbed ==
    LET Exists(f) == disk[f].file.exists
    IN  SelectSeq(<<"raw", "enriched">>, Exists)

\* cleanup_intermediates, lines 71-75.
CleanupGlob(j) ==
    /\ j \in DOMAIN thread
    /\ thread[j].pc = "cleanup_glob"
    /\ thread' = [thread EXCEPT ![j].pc = "cleanup_size", ![j].files = Globbed]
    /\ UNCHANGED <<api_key, jobs, disk, streamed, reader, response>>
    /\ UNCHANGED notApp

\* Line 76: os.path.getsize of each file; it raises when one is gone.
CleanupSize(j) ==
    /\ j \in DOMAIN thread
    /\ thread[j].pc = "cleanup_size"
    /\ IF \E k \in DOMAIN thread[j].files : ~disk[thread[j].files[k]].file.exists
           THEN thread' = [thread EXCEPT ![j].pc = "died", ![j].files = <<>>]
       ELSE thread' = Goto(j, IF thread[j].files = <<>> THEN "cleaned"
                                                         ELSE "cleanup_remove")
    /\ UNCHANGED <<api_key, jobs, disk, streamed, reader, response>>
    /\ UNCHANGED notApp

\* Lines 77-78: os.remove of the next file; it raises when the file is gone.
CleanupRemove(j) ==
    /\ j \in DOMAIN thread
    /\ thread[j].pc = "cleanup_remove"
    /\ LET f == Head(thread[j].files)
       IN  IF ~disk[f].file.exists
               THEN /\ thread' = [thread EXCEPT ![j].pc = "died", ![j].files = <<>>]
                    /\ UNCHANGED disk
           ELSE /\ disk' = [disk EXCEPT ![f] = Removed]
                /\ thread' = [thread EXCEPT
                       ![j].pc = IF Tail(thread[j].files) = <<>> THEN "cleaned"
                                                                 ELSE "cleanup_remove",
                       ![j].files = Tail(@)]
    /\ UNCHANGED <<api_key, jobs, streamed, reader, response>>
    /\ UNCHANGED notApp

\* Line 170.
PipelineCleaned(j) ==
    /\ j \in DOMAIN thread
    /\ thread[j].pc = "cleaned"
    /\ jobs' = Put(j, <<MsgClean>>)
    /\ thread' = Goto(j, "sentinel")
    /\ UNCHANGED <<api_key, disk, streamed, reader, response>>
    /\ UNCHANGED notApp

\* Line 175: q.put(None)
PipelineSentinel(j) ==
    /\ j \in DOMAIN thread
    /\ thread[j].pc = "sentinel"
    /\ jobs' = [jobs EXCEPT ![j].queue = Append(@, None)]
    /\ thread' = Goto(j, "returned")
    /\ UNCHANGED <<api_key, disk, streamed, reader, response>>
    /\ UNCHANGED notApp

\* stream, lines 206-211: a client opens /stream/<job_id>.
StreamOpen(j) ==
    /\ reader[j] = "none"
    /\ Cardinality({k \in DOMAIN reader : reader[k] # "none"}) < MaxClients
    /\ IF j \in DOMAIN jobs
           THEN /\ reader' = [reader EXCEPT ![j] = "reading"]
                /\ UNCHANGED streamed
           ELSE /\ reader' = [reader EXCEPT ![j] = "closed"]
                /\ streamed' = [streamed EXCEPT ![j] = <<"[ERROR] Job not found">>]
    /\ UNCHANGED <<api_key, jobs, thread, disk, response>>
    /\ UNCHANGED notApp

\* Lines 213-224: q.get() returns the next message, when there is one; the
\* sentinel ends the stream with the terminal event.
StreamGet(j) ==
    /\ reader[j] = "reading"
    /\ j \in DOMAIN jobs
    /\ jobs[j].queue # <<>>
    /\ LET item == Head(jobs[j].queue)
       IN  /\ jobs' = [jobs EXCEPT ![j].queue = Tail(@)]
           /\ IF item = None
                  THEN /\ streamed' = [streamed EXCEPT ![j] =
                              Append(@, IF jobs[j].status = "done"
                                            THEN <<"__DONE__:", jobs[j].csv.name>>
                                            ELSE <<"__ERROR__", "">>)]
                       /\ reader' = [reader EXCEPT ![j] = "closed"]
                  ELSE /\ streamed' = [streamed EXCEPT ![j] = Append(@, Escape(item.msg))]
                       /\ UNCHANGED reader
    /\ UNCHANGED <<api_key, thread, disk, response>>
    /\ UNCHANGED notApp

ThreadStep(j) ==
    \/ PipelineStart(j) \/ PipelineSearchTest(j) \/ PipelineSearchPopen(j)
    \/ ToolSearchOpen(j) \/ ToolSearchClose(j)
    \/ PipelineScrapeGlob(j) \/ PipelineScrapeTest(j) \/ PipelineScrapePopen(j)
    \/ ToolScrapeOpen(j) \/ ToolScrapeClose(j)
    \/ PipelineBuild(j) \/ PipelineFindCsv(j)
    \/ CleanupGlob(j) \/ CleanupSize(j) \/ CleanupRemove(j) \/ PipelineCleaned(j)
    \/ PipelineSentinel(j)

NextApp ==
    \/ RunRequest
    \/ \E j \in DOMAIN JobIds : ThreadStep(j)
    \/ \E j \in DOMAIN JobIds : StreamOpen(j) \/ StreamGet(j)

SpecApp == InitApp /\ [][NextApp]_vars

\* The threads are scheduled, and a client that reads a stream goes on
\* reading it.
SpecAppFair ==
    /\ SpecApp
    /\ \A j \in DOMAIN JobIds :
        /\ WF_vars(ThreadStep(j))
        /\ WF_vars(StreamGet(j))

\* ------------------------------------------------------------------------
\* Properties of deduplicate (SpecDedup)
\* ------------------------------------------------------------------------

\* The input record at position i is in the returned list.
Kept(i) == \E k \in DOMAIN unique : unique[k].idx = i

\* Two records share a non-empty place_id or a non-empty trimmed
\* lower-cased email.
SameIdentity(r, q) ==
    \/ r.place_id # "" /\ r.place_id = q.place_id
    \/ lower(strip(r.email)) # <<>> /\ lower(strip(r.email)) = lower(strip(q.email))

\* C1: of two input records that share a non-empty place_id or a non-empty
\* trimmed lower-cased email, the result holds at most one, and when it
\* holds one it is the one that comes first in the input.
C1_FirstOccurrenceWins ==
    pc_d = "done" =>
        \A i, j \in DOMAIN records :
            (i < j /\ SameIdentity(records[i], records[j])) => ~Kept(j)

\* C2: no two records of the returned list have the same non-empty place_id
\* or the same non-empty trimmed lower-cased email.
C2_UniquePerIdentityKey ==
    pc_d = "done" =>
        \A k, l \in DOMAIN unique :
            k # l => ~SameIdentity(unique[k], unique[l])

\* C2 witness: deduplicate dropped a colliding record and kept two others.
C2_Witness ==
    /\ pc_d = "done"
    /\ Len(unique) >= 2
    /\ \E i, j \in DOMAIN records :
        i < j /\ SameIdentity(records[i], records[j]) /\ Kept(i) /\ ~Kept(j)

\* C3: no record whose trimmed lower-cased email is an already-delivered
\* email (a non-blank email cell of the Leads/ folder) is in the result,
\* wherever it stands in the input and whatever its place_id.
C3_ExclusionSet ==
    pc_d = "done" =>
        \A c \in leads_cells : \A k \in DOMAIN unique :
            lower(strip(c)) # <<>> => lower(strip(unique[k].email)) # lower(strip(c))

\* C3 witness: an excluded record with a fresh place_id stands after a kept
\* record, and is left out.
C3_Witness ==
    /\ pc_d = "done"
    /\ \E i, j \in DOMAIN records :
        /\ i < j /\ Kept(i) /\ ~Kept(j)
        /\ records[j].place_id # "" /\ records[j].place_id # records[i].place_id
        /\ \E c \in leads_cells : lower(strip(c)) = lower(strip(records[j].email))
        /\ ~SameIdentity(records[i], records[j])


\* C17: when no enriched file exists for the niche, the lead-building run
\* aborts with an error and writes no output CSV, not even an empty one.
C17_MissingEnrichedIsFatal ==
    (~enriched_found /\ pc_d # "start") =>
        /\ pc_d = "aborted"
        /\ ~csv_written

\* C17 witness: the run aborted while the Leads folder held delivered emails.
C17_Witness ==
    /\ pc_d = "aborted"
    /\ ~enriched_found
    /\ leads_cells # {}
    /\ ~csv_written

\* ------------------------------------------------------------------------
\* Properties of the cross-category tie-break (SpecOutreach)
\* ------------------------------------------------------------------------

\* C4: after the tie-break the cafe partition and the restaurant partition
\* have no email in common.
C4_PartitionsDisjoint ==
    pc_o = "resolved" => Keys(cafe_leads) \cap Keys(resto_leads) = {}

\* C4 witness: a file whose name matches keywords of both categories gave
\* both partitions the same email, and both partitions end non-empty.
C4_Witness ==
    /\ pc_o = "resolved"
    /\ leads_dir[LeadFileNames[1]] # <<>>
    /\ \E e \in Keys(resto_leads) :
        \E k \in DOMAIN leads_dir[LeadFileNames[1]] :
            lower(strip(leads_dir[LeadFileNames[1]][k].email)) = e
    /\ cafe_leads # <<>>

\* C5: the resolution step leaves the restaurant partition unchanged and
\* removes from the cafe partition exactly the emails present in both,
\* keeping every other cafe entry as it was and in place; a shared email
\* ends in the restaurant partition only.
C5_TieBreakFrame ==
    [][(pc_o = "loaded" /\ pc_o' = "resolved") =>
        LET shared == Keys(cafe_leads) \cap Keys(resto_leads)
            NotShared(lead) == lead.email \notin shared
        IN  /\ resto_leads' = resto_leads
            /\ cafe_leads' = SelectSeq(cafe_leads, NotShared)
            /\ \A e \in shared :
                e \in Keys(resto_leads') /\ e \notin Keys(cafe_leads')]_vars

\* C5 witness: the two partitions shared an email before the resolution,
\* and the cafe partition keeps another one after it.
C5_Witness ==
    /\ pc_o = "resolved"
    /\ Keys(load_leads(leads_dir, CAFE_KEYWORDS))
         \cap Keys(load_leads(leads_dir, RESTO_KEYWORDS)) # {}
    /\ cafe_leads # <<>>
    /\ resto_leads # <<>>

\* ------------------------------------------------------------------------
\* Properties of enrich_record (SpecEnrich)
\* ------------------------------------------------------------------------

HasWebsite == strip(record.website) # <<>>

\* The valid emails of the documents of the pages fetched so far.
Discovered ==
    UNION {Range(extract_emails(fetch_page(web[fetch_log[k]]).emails, site_domain)) :
            k \in {j \in DOMAIN fetch_log : fetch_page(web[fetch_log[j]]) # None}}

\* Rank of an email for a site: 0 its domain is the site's own, 1 another
\* domain that is no free consumer provider, 2 a free consumer provider.
RankOf(e, site) ==
    LET at  == CHOOSE i \in DOMAIN e : e[i] = "@" /\ \A j \in DOMAIN e : e[j] = "@" => j <= i
        dom == SubSeq(e, at + 1, Len(e))
    IN  IF dom = site THEN 0
        ELSE IF dom \in GENERIC_EMAIL_DOMAINS THEN 2
        ELSE 1

\* C6: for a listing with a website, the email written by enrich_record is
\* the highest-priority one among all valid emails discovered on the pages
\* visited (and empty when none was discovered).
C6_FinalEmailIsBest ==
    (pc_e = "done" /\ HasWebsite) =>
        IF Discovered = {} THEN record.email = <<>>
        ELSE /\ record.email \in Discovered
             /\ \A e \in Discovered :
                    RankOf(record.email, site_domain) <= RankOf(e, site_domain)

\* An owner name is known and the best-known email is on the site's domain.
StrongestCombination ==
    /\ owner_name # <<>>
    /\ \E e \in Range(all_emails) : RankOf(e, site_domain) = 0

\* C7: enrich_record goes on to a further page only while the strongest
\* combination (owner known, best-known email on the site's own domain) is
\* not reached, and it stops before the last candidate page only when it is.
C7_EarlyExitRule ==
    /\ (pc_e = "loop" /\ fetch_log # <<>>) => ~StrongestCombination
    /\ (pc_e \in {"write", "done"} /\ HasWebsite /\ Len(fetch_log) < Len(pages))
            => StrongestCombination

\* The site root followed by the four sub-pages.
HomepageAndSubpages ==
    LET website == WithScheme(strip(record.website))
    IN  <<BaseUrl(website)>> \o
        [k \in DOMAIN SUBPAGES_TO_TRY |-> BaseUrl(website) \o <<SUBPAGES_TO_TRY[k]>>]

IsPrefix(s, t) == Len(s) <= Len(t) /\ \A k \in DOMAIN s : s[k] = t[k]

C14_EnrichIdempotent ==
    (pc_e = "done" /\ call_no = 2) => record = first_result

\* C14 witness: a call found two emails and an owner over several pages,
\* and the call made again ended with the record the first call returned.
C14_Witness ==
    /\ pc_e = "done"
    /\ call_no = 2
    /\ record = first_result
    /\ record.email # <<>>
    /\ record.owner_name # <<>>
    /\ Len(all_emails) >= 2
    /\ Len(fetch_log) >= 2

\* C15: for a listing whose website is empty or only whitespace,
\* enrich_record makes no fetch and returns the listing with its email and
\* owner_name empty.
C15_NoWebsiteNoFetch ==
    ~HasWebsite =>
        /\ fetch_log = <<>>
            /\ pc_e \notin {"loop", "write"}
        /\ pc_e = "done" => record.email = <<>> /\ record.owner_name = <<>>

\* C15 witness: the listing with the whitespace-only website was returned.
C15_Witness ==
    /\ pc_e = "done"
    /\ record.website = <<" ">>
    /\ fetch_log = <<>>
    /\ record.email = <<>>

\* ------------------------------------------------------------------------
\* Properties of extract_emails (SpecExtract)
\* ------------------------------------------------------------------------

\* Position of the first match of the document that gives email e.
FirstSeen(e) ==
    MinOf({k \in DOMAIN doc_raw : strip(lower(doc_raw[k])) = e})

\* C9: extract_emails returns the valid candidates of the document, each
\* once, ordered by rank 0, 1, 2 with equal ranks in first-seen order; and
\* a@biz.com, b@other.com, c@gmail.com come out as a, b, c for site biz.com
\* in whatever order they appear.
C9_EmailRanking ==
    pc_x = "done" =>
        /\ Range(extracted) = Range(ValidEmails(doc_raw))
        /\ \A i, j \in DOMAIN extracted :
            i < j =>
                /\ extracted[i] # extracted[j]
                /\ RankOf(extracted[i], ext_site) <= RankOf(extracted[j], ext_site)
                /\ RankOf(extracted[i], ext_site) = RankOf(extracted[j], ext_site)
                        => FirstSeen(extracted[i]) < FirstSeen(extracted[j])
        /\ (Range(doc_raw) = {EmailA, EmailB, EmailC} /\ ext_site = <<"biz.com">>)
                => extracted = <<EmailA, EmailB, EmailC>>

\* C9 witness: c, b, a in this order in the document come out as a, b, c.
C9_Witness ==
    /\ pc_x = "done"
    /\ doc_raw = <<EmailC, EmailB, EmailA>>
    /\ ext_site = <<"biz.com">>
    /\ extracted = <<EmailA, EmailB, EmailC>>

\* ------------------------------------------------------------------------
\* Properties of the qualified-cafes selection (SpecSelect)
\* ------------------------------------------------------------------------

\* The merged pool, in merge order, and the place of a record in it.
Pool == existing \o new_leads
PoolPlace(r) == CHOOSE k \in DOMAIN Pool : Pool[k] = r

\* The additive quality score: owner name 3, phone 2, website 1.
Quality(r) ==
    LET Has(field) == IF field # "" THEN 1 ELSE 0
    IN  3 * Has(r.owner_name) + 2 * Has(r.phone) + Has(r.website)

\* C10: the output has exactly min(N, pool size) records, all of them
\* records of the pool, in descending quality order, equal scores in merge
\* order, and no record left out scores strictly higher than a record kept.
C10_SelectorQuota ==
    pc_s = "done" =>
        /\ Len(final) = IF Len(Pool) < TARGET_COUNT THEN Len(Pool) ELSE TARGET_COUNT
        /\ \A k \in DOMAIN final : final[k] \in Range(Pool)
        /\ \A k, l \in DOMAIN final :
            k < l =>
                /\ final[k] # final[l]
                /\ Quality(final[k]) >= Quality(final[l])
                /\ Quality(final[k]) = Quality(final[l])
                        => PoolPlace(final[k]) < PoolPlace(final[l])
        /\ \A r \in Range(Pool) \ Range(final) :
            \A k \in DOMAIN final : Quality(r) <= Quality(final[k])

\* C10 witness: the pool is larger than the target, a record scoring lower
\* than a later one is left out, and two kept records tie.
C10_Witness ==
    /\ pc_s = "done"
    /\ Len(Pool) > TARGET_COUNT
    /\ Len(final) >= 2
    /\ Quality(final[1]) = Quality(final[2])
    /\ Quality(Pool[1]) < Quality(final[1])
    /\ Pool[1] \notin Range(final)

\* C11: when the merged pool holds fewer records than the target, the
\* selector reports the shortfall, target minus pool size, and does not
\* write the smaller output as a success; also after the expansion
\* harvesting ran.
C11_ShortfallReported ==
    (pc_s = "done" /\ Len(Pool) < TARGET_COUNT) =>
        /\ ~output_written
        /\ needed = TARGET_COUNT - Len(Pool)

\* ------------------------------------------------------------------------
\* Properties of validate_name and extract_owner (SpecOwner)
\* ------------------------------------------------------------------------

\* The words of a name: its fragments that are not blanks.
WordsOf(name) == {k \in DOMAIN name : name[k] # " "}

\* C19: validate_name accepts a candidate exactly when it has 2 to 4 words,
\* no word longer than 20 characters, no digit, every word starting with a
\* capital letter, and its lower-cased form is not in the denylist; About Us,
\* John123 Smith and the 5-word name are rejected, John Smith is accepted.
C19_ValidateNameGate ==
    pc_w = "validated" =>
        /\ own_valid <=>
                /\ Cardinality(WordsOf(own_name)) \in 2..4
                /\ \A k \in WordsOf(own_name) :
                        /\ own_name[k] \notin LongWords
                        /\ own_name[k] \notin DigitWords
                        /\ own_name[k] \in UpperFirstWords
                /\ lower(own_name) \notin FALSE_POSITIVE_NAMES
        /\ own_name \in {AboutUs, JohnDigit, FiveWords} => ~own_valid
        /\ own_name = JohnSmith => own_valid

\* C19 witness: a capitalized denylisted phrase was given and rejected.
C19_Witness ==
    /\ pc_w = "validated"
    /\ own_name = TheOwner
    /\ ~own_valid

\* Every candidate of a document: the Person names, then the matches of
\* each prose pattern, pattern by pattern, each in document order.
RECURSIVE AllMatches(_)
AllMatches(prose) ==
    IF prose = <<>> THEN <<>> ELSE Head(prose) \o AllMatches(Tail(prose))

Candidates(doc) == doc.persons \o AllMatches(doc.prose)

\* C20: extract_owner returns the first candidate of the document that
\* passes validate_name, and the empty string only when no candidate
\* passes.
C20_FirstValidCandidate ==
    pc_w = "extracted" =>
        LET cands == Candidates(own_doc)
            valid == {k \in DOMAIN cands : validate_name(strip(cands[k]))}
        IN  IF valid = {} THEN own_owner = <<>>
            ELSE own_owner = strip(cands[MinOf(valid)])

\* ------------------------------------------------------------------------
\* Properties of the batch run (SpecBatch)
\* ------------------------------------------------------------------------

\* The step makes a search request, or a page fetch.
SearchRequested == Len(search_log') > Len(search_log)
PageFetched == Len(fetch_log') > Len(fetch_log)

\* The file exists and holds more than 10 bytes.
NonTrivial(file) == file.exists /\ getsize(file) > 10

\* C12: when the search stage or the enrichment stage of a pair starts and
\* its output file exists with more than 10 bytes, the stage is over in
\* that step: no search request, no page fetch, and the .tmp folder is left
\* as it was.
C12_ResumeSkip ==
    [][/\ (pc_b = "search" /\ NonTrivial(tmp.raw[job])) =>
            /\ pc_b' = "scrape"
            /\ ~SearchRequested /\ ~PageFetched
            /\ tmp' = tmp
       /\ (pc_b = "scrape" /\ NonTrivial(tmp.enriched[job])) =>
            /\ pc_b' = "next"
            /\ ~SearchRequested /\ ~PageFetched
            /\ tmp' = tmp]_vars

\* C12 witness: in the later run both stages of a pair were skipped over
\* the files the earlier run wrote.
C12_Witness ==
    /\ run = "later"
    /\ pc_b = "next"
    /\ NonTrivial(tmp.raw[job])
    /\ NonTrivial(tmp.enriched[job])
    /\ tmp = earlier_tmp
    /\ search_log = <<>>

\* Both stages of the pair completed in the earlier run and wrote their
\* files.
EarlierDone(j) == earlier_tmp.raw[j].exists /\ earlier_tmp.enriched[j].exists

\* C13: in the later run the driver makes no search request and no page
\* fetch for a pair whose two stages completed in the earlier run, whatever
\* the number of listings the earlier search returned.
C13_ResumeSafeBatch ==
    [][(run = "later" /\ EarlierDone(job)) =>
            ~SearchRequested /\ ~PageFetched]_vars

\* The fetch the step made failed: no document.
FetchFailed == PageFetched /\ fetch_page(web'[fetch_log'[Len(fetch_log')]]) = None

\* C16: a failed fetch adds no email and no owner and enrich_record goes on
\* to the next candidate page; a listing whose every page failed is
\* returned with empty email and owner_name after all its pages were tried;
\* and the run appends what enrich_record returned and goes on to the next
\* business.
C16_FetchFailureNonFatal ==
    [][/\ FetchFailed =>
            /\ all_emails' = all_emails
            /\ owner_name' = owner_name
            /\ page_i' = page_i + 1
            /\ pc_e' = IF page_i < Len(pages) THEN "loop" ELSE "write"
       /\ (pc_e = "done" /\ pc_b = "enriching"
              /\ \A k \in DOMAIN fetch_log : fetch_page(web[fetch_log[k]]) = None) =>
            /\ Len(fetch_log) = Len(pages)
            /\ record.email = <<>>
            /\ record.owner_name = <<>>
       /\ (pc_e = "done" /\ pc_b = "enriching") =>
            /\ enriched' = Append(enriched, record)
            /\ rec_i < Len(raw_records) =>
                    /\ rec_i' = rec_i + 1
                    /\ pc_b' = "enriching"
                    /\ pc_e' = "idle"]_vars

\* C16 witness: every page of the first business failed, it was appended
\* with empty email and owner_name, and the second business is being
\* visited.
C16_Witness ==
    /\ pc_b = "enriching"
    /\ rec_i = 2
    /\ pc_e = "loop"
    /\ Len(enriched) = 1
    /\ enriched[1].email = <<>>
    /\ enriched[1].owner_name = <<>>
    /\ \A url \in DOMAIN web : fetch_page(web[url]) = None
    /\ \E url \in DOMAIN web : web[url].raised

\* The places of the pages the log holds with an answer that came.
RECURSIVE OkPlaces(_)
OkPlaces(log) ==
    IF log = <<>> THEN <<>>
    ELSE (IF Head(log).kind = "ok" THEN Listed(Head(log).places, Head(log).page)
                                   ELSE <<>>)
         \o OkPlaces(Tail(log))

\* C18: a page request answered 429 is followed by exactly one retry of
\* that page and no other failure is retried; when the retry fails too the
\* pagination stops with the listings gathered so far, which are returned
\* and written, and the tool ends normally, so that the driver goes on.
C18_RateLimitRetry ==
    [][/\ SearchRequested =>
            LET e == search_log'[Len(search_log')]
            IN  /\ Len(search_log') = Len(search_log) + 1
                /\ IF e.attempt = 2
                       THEN /\ search_log # <<>>
                            /\ search_log[Len(search_log)].page = e.page
                            /\ search_log[Len(search_log)].attempt = 1
                            /\ search_log[Len(search_log)].status = 429
                       ELSE \/ search_log = <<>> /\ e.page = 1
                            \/ /\ search_log # <<>>
                               /\ search_log[Len(search_log)].kind = "ok"
                               /\ e.page = search_log[Len(search_log)].page + 1
                /\ (e.attempt = 1 /\ e.status = 429) => pc_b' = "retry"
                /\ (e.attempt = 2 /\ e.kind # "ok") =>
                        /\ pc_b' = "write_raw"
                        /\ all_places' = all_places
       /\ pc_b = "retry" => SearchRequested /\ search_log'[Len(search_log')].attempt = 2
       /\ pc_b = "write_raw" =>
            /\ all_places = OkPlaces(search_log)
            /\ tmp' = [tmp EXCEPT !.raw[job] = File(all_places)]
            /\ pc_b' = "scrape"]_vars

\* C18 witness: the second pair's search got its first page, then 429 on
\* the second page and a failed retry, and is about to write the listings
\* of the first page.
C18_Witness ==
    /\ job = 2
    /\ pc_b = "write_raw"
    /\ Len(search_log) = 3
    /\ search_log[2].status = 429
    /\ search_log[3].attempt = 2
    /\ search_log[3].kind # "ok"
    /\ all_places = Listed(<<Place>>, 1)

\* The sleeps between records in the timeline.
RecordSleeps == {k \in DOMAIN timeline : timeline[k] = Sleep(INTER_RECORD_DELAY)}

\* C21: in a run of the enrichment stage every fetch of a page after the
\* first of a business comes right after the sub-page delay, also when the
\* fetch before it failed; the first fetch of a business that is not the first
\* fetch of the run comes right after the inter-record delay, which is the
\* longer one; one inter-record delay is made after each record but the
\* last, and none after the last.
C21_PolitenessPacing ==
    /\ INTER_RECORD_DELAY > INTER_PAGE_DELAY
    /\ \A k \in DOMAIN timeline :
        timeline[k].call = "fetch_page" =>
            IF timeline[k].page > 1
                THEN k > 1 /\ timeline[k - 1] = Sleep(INTER_PAGE_DELAY)
                ELSE (\E j \in 1..(k - 1) : timeline[j].call = "fetch_page")
                        => timeline[k - 1] = Sleep(INTER_RECORD_DELAY)
    /\ pc_b = "enriching" => Cardinality(RecordSleeps) = Len(enriched)
    /\ (pc_b = "write_enriched" /\ raw_records # <<>>) =>
            /\ Cardinality(RecordSleeps) = Len(raw_records) - 1
            /\ timeline[Len(timeline)].call = "fetch_page"

\* C21 witness: the stage is through three businesses; the homepage of the
\* first failed and its next page was fetched after the sub-page delay, and
\* the last entry of the timeline is the last fetch of the last business.
C21_Witness ==
    /\ pc_b = "write_enriched"
    /\ Len(raw_records) = 3
    /\ timeline[1] = Fetch(1)
    /\ fetch_page(web[BatchPages[1]]) = None
    /\ timeline[2] = Sleep(INTER_PAGE_DELAY)
    /\ timeline[3] = Fetch(2)
    /\ Cardinality(RecordSleeps) = 2
    /\ timeline[Len(timeline)].call = "fetch_page"

\* ------------------------------------------------------------------------
\* Properties of pick_category (SpecCategory)
\* ------------------------------------------------------------------------

\* The words of a tag: the runs of its text between the "_".
RECURSIVE TagWords(_, _)
TagWords(t, word) ==
    IF t = <<>> THEN (IF word = <<>> THEN {} ELSE {word})
    ELSE IF Head(t) = "_"
        THEN (IF word = <<>> THEN {} ELSE {word}) \cup TagWords(Tail(t), <<>>)
    ELSE TagWords(Tail(t), Append(word, Head(t)))

\* The tag and the niche have a word in common, whatever the case.
SharesWord(t, niche) ==
    \E k \in DOMAIN niche :
        niche[k] # " " /\ <<LowerFrag(niche[k])>> \in TagWords(lower(t), <<>>)

\* C22: pick_category returns (with spaces for underscores) a tag of the
\* listing outside the generic set whenever there is one: the first such
\* tag that shares a word with the niche when one does, the first such tag
\* otherwise; it returns the niche exactly when there is none.
C22_CategoryResolution ==
    pc_c = "done" =>
        LET specific == {k \in DOMAIN cat_types : cat_types[k] \notin GENERIC_TYPES}
            sharing  == {k \in specific : SharesWord(cat_types[k], cat_niche)}
        IN  IF specific = {} THEN category = cat_niche
            ELSE IF sharing # {}
                THEN category = ReplaceUnderscores(cat_types[MinOf(sharing)])
            ELSE category = ReplaceUnderscores(cat_types[MinOf(specific)])

\* ------------------------------------------------------------------------
\* Sort priority of the qualified-cafes selection (SpecSelect)
\* ------------------------------------------------------------------------

PhoneOnly(r) == r.phone # "" /\ r.owner_name = "" /\ r.website = ""
OwnerOnly(r) == r.owner_name # "" /\ r.phone = "" /\ r.website = ""

\* C23: in the ranking a phone outranks an owner name: a record with a
\* phone and no owner name stands before a record with an owner name and
\* no phone, both without website.
C23_PhoneOutranksOwner ==
    pc_s = "done" =>
        \A k, l \in DOMAIN final :
            (PhoneOnly(final[k]) /\ OwnerOnly(final[l])) => k < l

\* ------------------------------------------------------------------------
\* Properties of the jobs of app.py (SpecApp, SpecAppFair)
\* ------------------------------------------------------------------------

\* The step is one of job j; it changes the raw or the enriched file f
\* (truncates, writes or removes it).
Actor(j) == thread'[j] # thread[j]
Touched(f) == disk'[f] # disk[f]

\* Job k holds f open for writing; job k is past the stage that gives it f
\* and has not yet read f.
Writing(k, f) == k \in disk[f].writers
StillToRead(k, f) ==
    IF f = "raw"
        THEN thread[k].pc \in {"scrape_glob", "scrape_test", "scrape_popen"}
        ELSE thread[k].pc \in {"build"}

\* C24: no job truncates, writes or removes the raw or the enriched file
\* while another job is writing it or has still to read it; so the cleanup
\* of a finished job removes no file a running job has not yet consumed.
C24_NoConcurrentArtifactAccess ==
    [][\A j \in DOMAIN thread : \A f \in {"raw", "enriched"} :
            (Actor(j) /\ Touched(f)) =>
                \A k \in DOMAIN thread \ {j} : ~Writing(k, f) /\ ~StillToRead(k, f)]_vars

\* The thread of job j is over with the status set and the sentinel put.
StreamEnded(j) ==
    /\ thread[j].pc = "returned"
    /\ jobs[j].status \in {"done", "error"}

\* The number of sentinels job j put: those on the queue and the one the
\* reader took.
Sentinels(j) ==
    Cardinality({k \in DOMAIN jobs[j].queue : jobs[j].queue[k] = None})
    + (IF reader[j] = "closed" THEN 1 ELSE 0)

\* C25: every job started by /run comes to set its status to done or error
\* and to put the sentinel, whatever step fails, never more than once; and
\* a client reading its stream comes to receive the terminal event.
C25_JobStreamEnds ==
    \A j \in DOMAIN JobIds :
        /\ (j \in DOMAIN jobs) ~> (j \in DOMAIN jobs /\ StreamEnded(j))
        /\ (reader[j] = "reading") ~> (reader[j] = "closed")
        /\ [](j \in DOMAIN jobs => Sentinels(j) <= 1)

\* The build step of job j wrote a CSV.
WroteCsv(j) == j \in Range(disk.csvs)

\* C26: a job has status done, or its csv field set, only if its own build
\* step wrote a leads CSV; a job past its build step that wrote none has
\* status error, whatever CSVs of the niche other jobs left.
C26_DoneMeansOwnCsv ==
    \A j \in DOMAIN jobs :
        /\ (jobs[j].status = "done" \/ jobs[j].csv # None) => WroteCsv(j)
        /\ (thread[j].pc \in {"sentinel", "returned"} /\ ~WroteCsv(j))
                => jobs[j].status = "error"

\* The two records agree in every field but email and owner_name.
SameButContact(e, r) == RawListing(e) = RawListing(r)

\* C27: the enriched file of a pair is written only by the step that ends
\* the enrichment stage, after every record of the raw file was appended;
\* what is written holds one entry per raw record, in the raw file's order,
\* each equal to its raw record but for email and owner_name; while records
\* are still being enriched the file is not written.
C27_EnrichedShape ==
    [][tmp'.enriched # tmp.enriched =>
            /\ pc_b = "write_enriched"
            /\ Len(enriched) = Len(raw_records)
            /\ raw_records = tmp.raw[job].data
            /\ \A j \in 1..MaxJobs : j # job => tmp'.enriched[j] = tmp.enriched[j]
            /\ tmp'.enriched[job].exists
            /\ LET out == tmp'.enriched[job].data
                   raw == tmp.raw[job].data
               IN  /\ Len(out) = Len(raw)
                   /\ \A k \in DOMAIN out : SameButContact(out[k], raw[k])]_vars

\* C27 witness: an enriched file of three records, in the order of the
\* three pages they came from, the first with the email and the owner the
\* site gave, over a raw file whose records have neither.
C27_Witness ==
    /\ pc_b = "next"
    /\ Len(tmp.enriched[job].data) = 3
    /\ \A k \in 1..3 : tmp.enriched[job].data[k].place_id = k
    /\ tmp.enriched[job].data[1].email # <<>>
    /\ tmp.enriched[job].data[1].owner_name # <<>>
    /\ tmp.raw[job].data[1].email = <<>>
    /\ tmp.enriched[job].data # tmp.raw[job].data

\* ------------------------------------------------------------------------
\* deduplicate as a filter (SpecDedup)
\* ------------------------------------------------------------------------

\* C28: the list deduplicate returns is a subsequence of its input: every
\* kept record is the input record, unmodified, and the kept records stand
\* in input order; and deduplicate applied with the same exclusion set to
\* that list returns it unchanged.
C28_DedupOrderPreservingIdempotent ==
    /\ pc_d \in {"done", "again"} =>
        /\ \A k \in DOMAIN unique :
            /\ unique[k].idx \in DOMAIN records
            /\ unique[k] = records[unique[k].idx]
        /\ \A k, l \in DOMAIN unique : k < l => unique[k].idx < unique[l].idx
    /\ pc_d = "again" => unique_again = unique

\* C28 witness: of three records the second was dropped and the third was
\* kept with its email as written (not normalized); an email was excluded;
\* and the second application returned the same two records.
C28_Witness ==
    /\ pc_d = "again"
    /\ Len(records) = 3
    /\ Len(unique) = 2
    /\ unique[1].idx = 1 /\ unique[2].idx = 3
    /\ unique[2].email # NormEmail(unique[2].email)
    /\ load_existing_emails(leads_cells) # {}
    /\ unique_again = unique

=============================================================================
